---- MODULE Spec2Model ----
(***************************************************************************)
(* Normalisation-by-evaluation kernel of pikelet                           *)
(* (pikelet/src/lang/core/semantics.rs): evaluation to weak-head normal    *)
(* form, read-back, definitional equality and cumulative subtyping, with   *)
(* glued (Unstuck) values and memoised lazy values.                        *)
(*                                                                         *)
(* Every Arc<LazyValue> is a cell of `heap`, addressed by its position;    *)
(* the evaluator operators take the heap and return the heap they leave    *)
(* behind, so that forcing (LazyValue::force) is observable.               *)
(***************************************************************************)
EXTENDS Integers, Sequences, FiniteSets, TLC

(***************************************************************************)
(* Bounds of the model.                                                    *)
(***************************************************************************)
\* largest universe level written in an input term
MaxLevel == 1
\* largest universe offset of a Lift in an input term, and of the client
MaxOffset == 1
\* largest number of entries the client pushes on its local environment
MaxLocals == 1
\* the lazy values a client that holds a value may have allocated before a
\* further call that allocates
MaxHeap == 3
\* the names pushed at once by a distillation
MaxNames == 3
\* the characters of a source that is lexed
MaxSource == 3
\* the Arc<Value> cells and the handles on them that a client holds
MaxArcs == 3
\* the eliminations on the spine of a shared neutral
MaxSpine == 2

(***************************************************************************)
(* Option<T>                                                               *)
(***************************************************************************)
None == [tag |-> "None"]
Some(value) == [tag |-> "Some", value |-> value]

(***************************************************************************)
(* Constant (lang/core): the constants of the model are unsigned integers  *)
(* and 32-bit floats, a float held as its bit pattern.                     *)
(***************************************************************************)
Constant_U32(value) == [tag |-> "U32", value |-> value]
Constant_F32(value) == [tag |-> "F32", value |-> value]

\* the bit pattern of f32::NAN, 0x7fc00000
F32_NAN == 2143289344
\* f32::is_nan on a non-negative float: the exponent is all ones and the
\* mantissa is not zero, above the bits of infinity, 0x7f800000
F32_is_nan(value) == value > 2139095040

\* PartialEq of Constant: the same variant and equal payloads, and a float
\* that is NaN is equal to nothing, itself included
Constant_eq(constant0, constant1) ==
    /\ constant0.tag = constant1.tag
    /\ constant0.value = constant1.value
    /\ ~(constant0.tag = "F32" /\ F32_is_nan(constant0.value))

(***************************************************************************)
(* TermData (lang/core): the constructors that eval_term matches on.       *)
(***************************************************************************)
TermData_Global(name) == [tag |-> "Global", name |-> name]
TermData_Local(index) == [tag |-> "Local", index |-> index]
TermData_Ann(term, type) == [tag |-> "Ann", term |-> term, type |-> type]
TermData_TypeType(level) == [tag |-> "TypeType", level |-> level]
TermData_Lift(term, offset) == [tag |-> "Lift", term |-> term, offset |-> offset]
TermData_RecordType(entries) == [tag |-> "RecordType", entries |-> entries]
TermData_RecordTerm(entries) == [tag |-> "RecordTerm", entries |-> entries]
TermData_RecordElim(head, label) == [tag |-> "RecordElim", head |-> head, label |-> label]
TermData_FunctionType(hint, input, output) ==
    [tag |-> "FunctionType", hint |-> hint, input |-> input, output |-> output]
TermData_FunctionTerm(name, output) == [tag |-> "FunctionTerm", name |-> name, output |-> output]
TermData_FunctionElim(head, input) == [tag |-> "FunctionElim", head |-> head, input |-> input]
TermData_ArrayTerm(entries) == [tag |-> "ArrayTerm", entries |-> entries]
TermData_ListTerm(entries) == [tag |-> "ListTerm", entries |-> entries]
TermData_Constant(constant) == [tag |-> "Constant", constant |-> constant]
TermData_Error == [tag |-> "Error"]
\* the term a panicking read-back leaves: `.unwrap()` on a None
TermData_Panic == [tag |-> "Panic"]

(***************************************************************************)
(* Value, Head, Elim, closures, LazyInit, LazyValue                        *)
(***************************************************************************)
Head_Global(name, offset) == [tag |-> "Global", name |-> name, offset |-> offset]
Head_Local(level) == [tag |-> "Local", level |-> level]

\* Elim::Function holds an Arc<LazyValue>: the address of a heap cell
Elim_Function(input) == [tag |-> "Function", input |-> input]
Elim_Record(label) == [tag |-> "Record", label |-> label]

Value_Stuck(head, spine) == [tag |-> "Stuck", head |-> head, spine |-> spine]
\* the third component is an Arc<LazyValue>: the address of a heap cell
Value_Unstuck(head, spine, lazy) ==
    [tag |-> "Unstuck", head |-> head, spine |-> spine, lazy |-> lazy]
Value_TypeType(level) == [tag |-> "TypeType", level |-> level]
Value_FunctionType(hint, input_type, closure) ==
    [tag |-> "FunctionType", hint |-> hint, input_type |-> input_type, closure |-> closure]
Value_FunctionTerm(name, closure) == [tag |-> "FunctionTerm", name |-> name, closure |-> closure]
Value_RecordType(closure) == [tag |-> "RecordType", closure |-> closure]
Value_RecordTerm(closure) == [tag |-> "RecordTerm", closure |-> closure]
Value_ArrayTerm(entries) == [tag |-> "ArrayTerm", entries |-> entries]
Value_ListTerm(entries) == [tag |-> "ListTerm", entries |-> entries]
Value_Constant(constant) == [tag |-> "Constant", constant |-> constant]
Value_Error == [tag |-> "Error"]
\* the outcome of a panic (`.unwrap()` on None, a poisoned lazy value)
Value_Panic == [tag |-> "Panic"]

Value_global(name, offset, elims) == Value_Stuck(Head_Global(name, offset), elims)
Value_local(level, elims) == Value_Stuck(Head_Local(level), elims)

FunctionClosure_new(universe_offset, locals, term) ==
    [universe_offset |-> universe_offset, locals |-> locals, term |-> term]
RecordClosure_new(universe_offset, locals, entries) ==
    [universe_offset |-> universe_offset, locals |-> locals, entries |-> entries]

LazyInit_EvalTerm(universe_offset, locals, term) ==
    [tag |-> "EvalTerm", universe_offset |-> universe_offset, locals |-> locals, term |-> term]
LazyInit_ApplyElim(head, elim) == [tag |-> "ApplyElim", head |-> head, elim |-> elim]

\* LazyValue::new: eagerly constructed, the cell is already set
LazyValue_new(value) == [init |-> None, cell |-> value]
\* LazyValue::eval_term
LazyValue_eval_term(universe_offset, locals, term) ==
    [init |-> LazyInit_EvalTerm(universe_offset, locals, term), cell |-> None]
\* LazyValue::apply_elim
LazyValue_apply_elim(head, elim) ==
    [init |-> LazyInit_ApplyElim(head, elim), cell |-> None]

\* Arc::new(lazy_value): the cell is appended to the heap, its address is
\* the new length
Arc_new(heap, lazy_value) == [ptr |-> Len(heap) + 1, heap |-> Append(heap, lazy_value)]

(***************************************************************************)
(* Locals<Entry>, LocalSize, LocalLevel, LocalIndex (lang/core)            *)
(***************************************************************************)
Locals_new == <<>>
Locals_size(locals) == Len(locals)
\* get(index): the index-th entry counted from the innermost (right) end
Locals_get(locals, index) ==
    IF index < Len(locals) THEN locals[Len(locals) - index] ELSE None
Locals_push(locals, entry) == Append(locals, entry)
Locals_pop(locals) == SubSeq(locals, 1, Len(locals) - 1)
\* clone(): a snapshot; later pushes on either copy do not show in the other
Locals_clone(locals) == locals
LocalSize_next_level(size) == size
LocalSize_increment(size) == size + 1
\* level.to_index(size) = size - 1 - level, None when the level is out of range
LocalLevel_to_index(level, size) ==
    IF level < size THEN Some(size - 1 - level) ELSE None
\* index.to_level(size) = size - 1 - index, None when the index is out of range
LocalIndex_to_level(index, size) ==
    IF index < size THEN Some(size - 1 - index) ELSE None

(***************************************************************************)
(* Globals: name -> (type, definition?).  The global environment the       *)
(* kernel is run against.                                                  *)
(***************************************************************************)
GlobalNames == <<"A", "f", "id", "one", "uno", "T0">>

Globals_get(name) ==
    CASE name = "A" -> [type |-> TermData_TypeType(0), definition |-> None]
      [] name = "f" ->
            [type |-> TermData_FunctionType(None, TermData_Global("A"), TermData_Global("A")),
             definition |-> None]
      [] name = "id" ->
            [type |-> TermData_FunctionType(None, TermData_Global("A"), TermData_Global("A")),
             definition |-> TermData_FunctionTerm("x", TermData_Local(0))]
      [] name = "one" ->
            [type |-> TermData_Global("A"),
             definition |-> TermData_Constant(Constant_U32(1))]
      [] name = "uno" ->
            [type |-> TermData_Global("A"),
             definition |-> TermData_Constant(Constant_U32(1))]
      [] name = "T0" -> [type |-> TermData_TypeType(1), definition |-> TermData_TypeType(0)]
      [] name = "U32" -> [type |-> TermData_TypeType(0), definition |-> None]
      [] name = "List" ->
            [type |-> TermData_FunctionType(None, TermData_TypeType(0), TermData_TypeType(0)),
             definition |-> None]
      [] name = "Array" ->
            [type |-> TermData_FunctionType(
                          None, TermData_Global("U32"),
                          TermData_FunctionType(None, TermData_TypeType(0),
                                                TermData_TypeType(0))),
             definition |-> None]
      [] OTHER -> None

(***************************************************************************)
(* The evaluator.  Results are records: eval_term returns the value, the   *)
(* caller's locals as the call leaves them (`locals` is `&mut`) and the    *)
(* heap; the other operators return their result and the heap.             *)
(***************************************************************************)
\* a call of one function of the kernel by another: see `call` below
RECURSIVE call(_, _)

\* TermData::Global with the definition evaluated at once
eval_Global_eager(universe_offset, locals, term, heap) ==
    LET global == Globals_get(term.name)
        head == Head_Global(term.name, universe_offset)
    IN  IF global # None /\ global.definition # None
        THEN LET r == call("eval_term", <<universe_offset, Locals_clone(locals),
                                          global.definition, heap>>)
                 arc == Arc_new(r.heap, LazyValue_new(r.value))
             IN  [value |-> Value_Unstuck(head, <<>>, arc.ptr),
                  locals |-> locals, heap |-> arc.heap]
        ELSE [value |-> Value_Stuck(head, <<>>), locals |-> locals, heap |-> heap]

\* TermData::Global
eval_Global(universe_offset, locals, term, heap) ==
    LET global == Globals_get(term.name)
        head == Head_Global(term.name, universe_offset)
    IN  IF global # None /\ global.definition # None
        THEN LET value == LazyValue_eval_term(universe_offset, Locals_clone(locals),
                                              global.definition)
                 arc == Arc_new(heap, value)
             IN  [value |-> Value_Unstuck(head, <<>>, arc.ptr),
                  locals |-> locals, heap |-> arc.heap]
        ELSE [value |-> Value_Stuck(head, <<>>), locals |-> locals, heap |-> heap]

\* TermData::Local
eval_Local(universe_offset, locals, term, heap) ==
    LET value == Locals_get(locals, term.index)
    IN  IF value # None
        THEN [value |-> value, locals |-> locals, heap |-> heap]
        ELSE LET level == LocalIndex_to_level(term.index, Locals_size(locals))
             IN  IF level = None
                 THEN [value |-> Value_Panic, locals |-> locals, heap |-> heap]
                 ELSE [value |-> Value_Stuck(Head_Local(level.value), <<>>),
                       locals |-> locals, heap |-> heap]

\* TermData::Ann
eval_Ann(universe_offset, locals, term, heap) ==
    call("eval_term", <<universe_offset, locals, term.term, heap>>)

\* TermData::TypeType
eval_TypeType(universe_offset, locals, term, heap) ==
    [value |-> Value_TypeType(term.level + universe_offset),
     locals |-> locals, heap |-> heap]

\* TermData::Lift with the offset of the lift taken in place of the sum
eval_Lift_offset_replaced(universe_offset, locals, term, heap) ==
    call("eval_term", <<term.offset, locals, term.term, heap>>)

\* TermData::Lift
eval_Lift(universe_offset, locals, term, heap) ==
    call("eval_term", <<universe_offset + term.offset, locals, term.term, heap>>)

\* TermData::RecordType
eval_RecordType(universe_offset, locals, term, heap) ==
    [value |-> Value_RecordType(
                   RecordClosure_new(universe_offset, Locals_clone(locals), term.entries)),
     locals |-> locals, heap |-> heap]

\* TermData::RecordTerm
eval_RecordTerm(universe_offset, locals, term, heap) ==
    [value |-> Value_RecordTerm(
                   RecordClosure_new(universe_offset, Locals_clone(locals), term.entries)),
     locals |-> locals, heap |-> heap]

\* TermData::RecordElim
eval_RecordElim(universe_offset, locals, term, heap) ==
    LET head == call("eval_term", <<universe_offset, locals, term.head, heap>>)
        r == call("apply_record_elim", <<head.value, term.label, head.heap>>)
    IN  IF head.value = Value_Panic
        THEN head
        ELSE [value |-> r.value, locals |-> head.locals, heap |-> r.heap]

\* TermData::FunctionType
eval_FunctionType(universe_offset, locals, term, heap) ==
    LET input_type == call("eval_term", <<universe_offset, locals, term.input, heap>>)
    IN  IF input_type.value = Value_Panic
        THEN input_type
        ELSE [value |-> Value_FunctionType(
                            term.hint, input_type.value,
                            FunctionClosure_new(universe_offset,
                                                Locals_clone(input_type.locals),
                                                term.output)),
              locals |-> input_type.locals, heap |-> input_type.heap]

\* eval_FunctionTerm that binds the parameter in the caller's environment and
\* does not pop it
eval_FunctionTerm_leaking_local(universe_offset, locals, term, heap) ==
    [value |-> Value_FunctionTerm(
                   term.name,
                   FunctionClosure_new(universe_offset, Locals_clone(locals), term.output)),
     locals |-> Locals_push(locals, Value_local(Locals_size(locals), <<>>)),
     heap |-> heap]

\* TermData::FunctionTerm
eval_FunctionTerm(universe_offset, locals, term, heap) ==
    [value |-> Value_FunctionTerm(
                   term.name,
                   FunctionClosure_new(universe_offset, Locals_clone(locals), term.output)),
     locals |-> locals, heap |-> heap]

\* TermData::FunctionElim
eval_FunctionElim(universe_offset, locals, term, heap) ==
    LET head == call("eval_term", <<universe_offset, locals, term.head, heap>>)
        input == LazyValue_eval_term(universe_offset, Locals_clone(head.locals), term.input)
        arc == Arc_new(head.heap, input)
        r == call("apply_function_elim", <<head.value, arc.ptr, arc.heap>>)
    IN  IF head.value = Value_Panic
        THEN head
        ELSE [value |-> r.value, locals |-> head.locals, heap |-> r.heap]

\* term_entries.iter().map(|entry_term| eval_term(..)).collect(), from entry i
eval_entries(universe_offset, locals, entries, i, acc, heap) ==
    IF i > Len(entries)
    THEN [value |-> acc, panic |-> FALSE, locals |-> locals, heap |-> heap]
    ELSE LET r == call("eval_term", <<universe_offset, locals, entries[i], heap>>)
         IN  IF r.value = Value_Panic
             THEN [value |-> acc, panic |-> TRUE, locals |-> r.locals, heap |-> r.heap]
             ELSE call("eval_entries", <<universe_offset, r.locals, entries, i + 1,
                                         Append(acc, r.value), r.heap>>)

\* TermData::ArrayTerm
eval_ArrayTerm(universe_offset, locals, term, heap) ==
    LET r == call("eval_entries", <<universe_offset, locals, term.entries, 1, <<>>, heap>>)
    IN  IF r.panic
        THEN [value |-> Value_Panic, locals |-> r.locals, heap |-> r.heap]
        ELSE [value |-> Value_ArrayTerm(r.value), locals |-> r.locals, heap |-> r.heap]

\* TermData::ListTerm
eval_ListTerm(universe_offset, locals, term, heap) ==
    LET r == call("eval_entries", <<universe_offset, locals, term.entries, 1, <<>>, heap>>)
    IN  IF r.panic
        THEN [value |-> Value_Panic, locals |-> r.locals, heap |-> r.heap]
        ELSE [value |-> Value_ListTerm(r.value), locals |-> r.locals, heap |-> r.heap]

\* Evaluate a Term into a Value.
eval_term(universe_offset, locals, term, heap) ==
    CASE term.tag = "Global" -> eval_Global(universe_offset, locals, term, heap)
      [] term.tag = "Local" -> eval_Local(universe_offset, locals, term, heap)
      [] term.tag = "Ann" -> eval_Ann(universe_offset, locals, term, heap)
      [] term.tag = "TypeType" -> eval_TypeType(universe_offset, locals, term, heap)
      [] term.tag = "Lift" -> eval_Lift(universe_offset, locals, term, heap)
      [] term.tag = "RecordType" -> eval_RecordType(universe_offset, locals, term, heap)
      [] term.tag = "RecordTerm" -> eval_RecordTerm(universe_offset, locals, term, heap)
      [] term.tag = "RecordElim" -> eval_RecordElim(universe_offset, locals, term, heap)
      [] term.tag = "FunctionType" -> eval_FunctionType(universe_offset, locals, term, heap)
      [] term.tag = "FunctionTerm" -> eval_FunctionTerm(universe_offset, locals, term, heap)
      [] term.tag = "FunctionElim" -> eval_FunctionElim(universe_offset, locals, term, heap)
      [] term.tag = "ArrayTerm" -> eval_ArrayTerm(universe_offset, locals, term, heap)
      [] term.tag = "ListTerm" -> eval_ListTerm(universe_offset, locals, term, heap)
      [] term.tag = "Constant" ->
            [value |-> Value_Constant(term.constant), locals |-> locals, heap |-> heap]
      [] term.tag = "Error" -> [value |-> Value_Error, locals |-> locals, heap |-> heap]

\* FunctionClosure::apply
FunctionClosure_apply(closure, input, heap) ==
    LET locals == Locals_push(Locals_clone(closure.locals), input)
        r == call("eval_term", <<closure.universe_offset, locals, closure.term, heap>>)
    IN  [value |-> r.value, heap |-> r.heap]

\* RecordClosure::find_entry that does not push the entries it passes
RecordClosure_find_entry_not_extended(universe_offset, locals, entries, i, label, heap) ==
    IF i > Len(entries)
    THEN [value |-> None, heap |-> heap]
    ELSE LET r == call("eval_term", <<universe_offset, locals, entries[i][2], heap>>)
         IN  IF entries[i][1] = label \/ r.value = Value_Panic
             THEN [value |-> r.value, heap |-> r.heap]
             ELSE call("RecordClosure_find_entry",
                       <<universe_offset, r.locals, entries, i + 1, label, r.heap>>)

\* RecordClosure::find_entry with the callback of apply_record_elim
\* (Ok(entry_value) at the label, Err(entry_value) otherwise), from entry i
RecordClosure_find_entry(universe_offset, locals, entries, i, label, heap) ==
    IF i > Len(entries)
    THEN [value |-> None, heap |-> heap]
    ELSE LET r == call("eval_term", <<universe_offset, locals, entries[i][2], heap>>)
         IN  IF entries[i][1] = label \/ r.value = Value_Panic
             THEN [value |-> r.value, heap |-> r.heap]
             ELSE call("RecordClosure_find_entry",
                       <<universe_offset, Locals_push(r.locals, r.value),
                                           entries, i + 1, label, r.heap>>)

\* Apply a record term elimination.  Arc::make_mut gives the callee its own
\* copy of the head value, to which the elimination is pushed.
apply_record_elim(head_value, label, heap) ==
    CASE head_value.tag = "Stuck" ->
            [value |-> Value_Stuck(head_value.head,
                                   Append(head_value.spine, Elim_Record(label))),
             heap |-> heap]
      [] head_value.tag = "Unstuck" ->
            LET arc == Arc_new(heap, LazyValue_apply_elim(head_value.lazy, Elim_Record(label)))
            IN  [value |-> Value_Unstuck(head_value.head,
                                         Append(head_value.spine, Elim_Record(label)),
                                         arc.ptr),
                 heap |-> arc.heap]
      [] head_value.tag = "RecordTerm" ->
            LET closure == head_value.closure
                r == call("RecordClosure_find_entry", <<closure.universe_offset,
                                              Locals_clone(closure.locals),
                                              closure.entries, 1, label, heap>>)
            IN  IF r.value = None
                THEN [value |-> Value_Error, heap |-> r.heap]
                ELSE r
      [] OTHER -> [value |-> Value_Error, heap |-> heap]

\* RecordClosure::find_entry with the callback of record_elim_type
\* (Ok(entry_type) at the label, Err of a projection of the head otherwise),
\* from entry i; the projection binds the entry just passed
record_elim_type_entries(universe_offset, locals, entries, i, head_value, label, heap) ==
    IF i > Len(entries)
    THEN [value |-> None, heap |-> heap]
    ELSE LET r == call("eval_term", <<universe_offset, locals, entries[i][2], heap>>)
         IN  IF r.value = Value_Panic
             THEN [value |-> Value_Panic, heap |-> r.heap]
             ELSE IF entries[i][1] = label
                  THEN [value |-> Some(r.value), heap |-> r.heap]
                  ELSE LET entry == call("apply_record_elim", <<head_value, label, r.heap>>)
                       IN  call("record_elim_type_entries",
                                <<universe_offset, Locals_push(r.locals, entry.value),
                                  entries, i + 1, head_value, label, entry.heap>>)

\* Return the type of the record elimination.
record_elim_type(head_value, label, closure, heap) ==
    call("record_elim_type_entries", <<closure.universe_offset, Locals_clone(closure.locals),
                                       closure.entries, 1, head_value, label, heap>>)

\* apply_function_elim that pushes the elimination on the spine of an
\* unstuck value and leaves its lazy value as it was
apply_function_elim_payload_unwrapped(head_value, input, heap) ==
    CASE head_value.tag = "Stuck" ->
            [value |-> Value_Stuck(head_value.head,
                                   Append(head_value.spine, Elim_Function(input))),
             heap |-> heap]
      [] head_value.tag = "Unstuck" ->
            [value |-> Value_Unstuck(head_value.head,
                                     Append(head_value.spine, Elim_Function(input)),
                                     head_value.lazy),
             heap |-> heap]
      [] head_value.tag = "FunctionTerm" ->
            LET forced == call("LazyValue_force", <<input, heap>>)
            IN  IF forced.value = Value_Panic
                THEN forced
                ELSE call("FunctionClosure_apply",
                          <<head_value.closure, forced.value, forced.heap>>)
      [] OTHER -> [value |-> Value_Error, heap |-> heap]

\* Apply a function term elimination.
apply_function_elim(head_value, input, heap) ==
    CASE head_value.tag = "Stuck" ->
            [value |-> Value_Stuck(head_value.head,
                                   Append(head_value.spine, Elim_Function(input))),
             heap |-> heap]
      [] head_value.tag = "Unstuck" ->
            LET arc == Arc_new(heap,
                               LazyValue_apply_elim(head_value.lazy, Elim_Function(input)))
            IN  [value |-> Value_Unstuck(head_value.head,
                                         Append(head_value.spine, Elim_Function(input)),
                                         arc.ptr),
                 heap |-> arc.heap]
      [] head_value.tag = "FunctionTerm" ->
            LET forced == call("LazyValue_force", <<input, heap>>)
            IN  IF forced.value = Value_Panic
                THEN forced
                ELSE call("FunctionClosure_apply",
                          <<head_value.closure, forced.value, forced.heap>>)
      [] OTHER -> [value |-> Value_Error, heap |-> heap]

\* LazyValue::force that runs the initialiser and does not keep its result
\* in the cell
LazyValue_force_not_memoised(lazy, heap) ==
    IF heap[lazy].cell # None
    THEN [value |-> heap[lazy].cell, heap |-> heap]
    ELSE LET init == heap[lazy].init
             taken == [heap EXCEPT ![lazy].init = None]
         IN  CASE init = None -> [value |-> Value_Panic, heap |-> taken]
               [] init.tag = "EvalTerm" ->
                     LET e == call("eval_term", <<init.universe_offset, init.locals,
                                                  init.term, taken>>)
                     IN  [value |-> e.value, heap |-> e.heap]
               [] init.tag = "ApplyElim" /\ init.elim.tag = "Record" ->
                     LET head == call("LazyValue_force", <<init.head, taken>>)
                     IN  IF head.value = Value_Panic
                         THEN head
                         ELSE call("apply_record_elim",
                                   <<head.value, init.elim.label, head.heap>>)
               [] init.tag = "ApplyElim" /\ init.elim.tag = "Function" ->
                     LET head == call("LazyValue_force", <<init.head, taken>>)
                     IN  IF head.value = Value_Panic
                         THEN head
                         ELSE call("apply_function_elim",
                                   <<head.value, init.elim.input, head.heap>>)

\* LazyValue::force that returns Error, and keeps it, when it finds the cell
\* empty and the initialiser taken
LazyValue_force_poisoned_as_error(lazy, heap) ==
    IF heap[lazy].cell # None
    THEN [value |-> heap[lazy].cell, heap |-> heap]
    ELSE LET init == heap[lazy].init
             taken == [heap EXCEPT ![lazy].init = None]
             r == CASE init = None -> [value |-> Value_Error, heap |-> taken]
                    [] init.tag = "EvalTerm" ->
                          LET e == call("eval_term", <<init.universe_offset, init.locals,
                                                       init.term, taken>>)
                          IN  [value |-> e.value, heap |-> e.heap]
                    [] init.tag = "ApplyElim" /\ init.elim.tag = "Record" ->
                          LET head == call("LazyValue_force", <<init.head, taken>>)
                          IN  IF head.value = Value_Panic
                              THEN head
                              ELSE call("apply_record_elim",
                                        <<head.value, init.elim.label, head.heap>>)
                    [] init.tag = "ApplyElim" /\ init.elim.tag = "Function" ->
                          LET head == call("LazyValue_force", <<init.head, taken>>)
                          IN  IF head.value = Value_Panic
                              THEN head
                              ELSE call("apply_function_elim",
                                        <<head.value, init.elim.input, head.heap>>)
         IN  IF r.value = Value_Panic
             THEN r
             ELSE [value |-> r.value, heap |-> [r.heap EXCEPT ![lazy].cell = r.value]]

\* LazyValue::force: cell.get_or_init(|| match init.replace(None) {...})
LazyValue_force(lazy, heap) ==
    IF heap[lazy].cell # None
    THEN [value |-> heap[lazy].cell, heap |-> heap]
    ELSE LET init == heap[lazy].init
             taken == [heap EXCEPT ![lazy].init = None]
             r == CASE init = None -> [value |-> Value_Panic, heap |-> taken]
                    [] init.tag = "EvalTerm" ->
                          LET e == call("eval_term", <<init.universe_offset, init.locals,
                                             init.term, taken>>)
                          IN  [value |-> e.value, heap |-> e.heap]
                    [] init.tag = "ApplyElim" /\ init.elim.tag = "Record" ->
                          LET head == call("LazyValue_force", <<init.head, taken>>)
                          IN  IF head.value = Value_Panic
                              THEN head
                              ELSE call("apply_record_elim",
                                        <<head.value, init.elim.label, head.heap>>)
                    [] init.tag = "ApplyElim" /\ init.elim.tag = "Function" ->
                          LET head == call("LazyValue_force", <<init.head, taken>>)
                          IN  IF head.value = Value_Panic
                              THEN head
                              ELSE call("apply_function_elim",
                                        <<head.value, init.elim.input, head.heap>>)
         IN  IF r.value = Value_Panic
             THEN r
             ELSE [value |-> r.value, heap |-> [r.heap EXCEPT ![lazy].cell = r.value]]

\* Value::force: force any unstuck values.
Value_force(value, heap) ==
    IF value.tag = "Unstuck"
    THEN LET forced == call("LazyValue_force", <<value.lazy, heap>>)
         IN  call("Value_force", <<forced.value, forced.heap>>)
    ELSE [value |-> value, heap |-> heap]

(***************************************************************************)
(* Read-back                                                               *)
(***************************************************************************)
\* enum Unfold
Unfold_Never == "Never"
Unfold_Always == "Always"

\* read_back_spine that folds the spine from its last elimination to its first
read_back_spine_reversed(local_size, unfold, spine, i, head, heap) ==
    IF i > Len(spine)
    THEN [term |-> head, heap |-> heap]
    ELSE LET elim == spine[Len(spine) + 1 - i]
         IN  IF elim.tag = "Function"
             THEN LET forced == call("LazyValue_force", <<elim.input, heap>>)
                      input == call("read_back_value",
                                    <<local_size, unfold, forced.value, forced.heap>>)
                  IN  IF input.term = TermData_Panic
                      THEN input
                      ELSE call("read_back_spine",
                                <<local_size, unfold, spine, i + 1,
                                  TermData_FunctionElim(head, input.term), input.heap>>)
             ELSE call("read_back_spine",
                       <<local_size, unfold, spine, i + 1,
                         TermData_RecordElim(head, elim.label), heap>>)

\* the fold over the spine of read_back_stuck_value, from elimination i
read_back_spine(local_size, unfold, spine, i, head, heap) ==
    IF i > Len(spine)
    THEN [term |-> head, heap |-> heap]
    ELSE IF spine[i].tag = "Function"
         THEN LET forced == call("LazyValue_force", <<spine[i].input, heap>>)
                  input == call("read_back_value",
                                <<local_size, unfold, forced.value, forced.heap>>)
              IN  IF input.term = TermData_Panic
                  THEN input
                  ELSE call("read_back_spine", <<local_size, unfold, spine, i + 1,
                                       TermData_FunctionElim(head, input.term), input.heap>>)
         ELSE call("read_back_spine", <<local_size, unfold, spine, i + 1,
                              TermData_RecordElim(head, spine[i].label), heap>>)

\* Read-back a spine of eliminators into the term syntax.
read_back_stuck_value(local_size, unfold, head, spine, heap) ==
    IF head.tag = "Global"
    THEN LET global == TermData_Global(head.name)
         IN  call("read_back_spine", <<local_size, unfold, spine, 1,
                             IF head.offset = 0 THEN global
                             ELSE TermData_Lift(global, head.offset),
                             heap>>)
    ELSE LET index == LocalLevel_to_index(head.level, local_size)
         IN  IF index = None
             THEN [term |-> TermData_Panic, heap |-> heap]
             ELSE call("read_back_spine", <<local_size, unfold, spine, 1,
                                  TermData_Local(index.value), heap>>)

\* RecordClosure::for_each_entry with the callback of read_back_value
\* (read the entry back, then bind a fresh local), from entry i
read_back_entries(local_size, unfold, universe_offset, locals, entries, i, acc, heap) ==
    IF i > Len(entries)
    THEN [entries |-> acc, panic |-> FALSE, heap |-> heap]
    ELSE LET entry_value == call("eval_term", <<universe_offset, locals, entries[i][2], heap>>)
             entry == call("read_back_value", <<local_size, unfold, entry_value.value,
                                      entry_value.heap>>)
             local_level == LocalSize_next_level(local_size)
         IN  IF entry.term = TermData_Panic
             THEN [entries |-> acc, panic |-> TRUE, heap |-> entry.heap]
             ELSE call("read_back_entries", <<LocalSize_increment(local_size), unfold,
                                    universe_offset,
                                    Locals_push(entry_value.locals,
                                                Value_local(local_level, <<>>)),
                                    entries, i + 1,
                                    Append(acc, <<entries[i][1], entry.term>>),
                                    entry.heap>>)

\* value_entries.iter().map(|value_entry| read_back_value(..)).collect()
read_back_sequence(local_size, unfold, value_entries, i, acc, heap) ==
    IF i > Len(value_entries)
    THEN [entries |-> acc, panic |-> FALSE, heap |-> heap]
    ELSE LET entry == call("read_back_value", <<local_size, unfold, value_entries[i], heap>>)
         IN  IF entry.term = TermData_Panic
             THEN [entries |-> acc, panic |-> TRUE, heap |-> entry.heap]
             ELSE call("read_back_sequence", <<local_size, unfold, value_entries, i + 1,
                                     Append(acc, entry.term), entry.heap>>)

\* Value::Unstuck arm of read_back_value
read_back_Unstuck(local_size, unfold, value, heap) ==
    IF unfold = Unfold_Never
    THEN call("read_back_stuck_value", <<local_size, unfold, value.head, value.spine, heap>>)
    ELSE LET forced == call("LazyValue_force", <<value.lazy, heap>>)
         IN  call("read_back_value", <<local_size, unfold, forced.value, forced.heap>>)

\* Value::FunctionType arm of read_back_value
read_back_FunctionType(local_size, unfold, value, heap) ==
    LET local == Value_local(LocalSize_next_level(local_size), <<>>)
        input_type == call("read_back_value", <<local_size, unfold, value.input_type, heap>>)
        output_value == call("FunctionClosure_apply", <<value.closure, local, input_type.heap>>)
        output_type == call("read_back_value", <<LocalSize_increment(local_size), unfold,
                                       output_value.value, output_value.heap>>)
    IN  IF input_type.term = TermData_Panic
        THEN input_type
        ELSE IF output_type.term = TermData_Panic
             THEN output_type
             ELSE [term |-> TermData_FunctionType(value.hint, input_type.term,
                                                  output_type.term),
                   heap |-> output_type.heap]

\* read_back_FunctionTerm that reads the output back at a size one too large
read_back_FunctionTerm_wrong_size(local_size, unfold, value, heap) ==
    LET local == Value_local(LocalSize_next_level(local_size), <<>>)
        output_value == call("FunctionClosure_apply", <<value.closure, local, heap>>)
        output_term == call("read_back_value",
                            <<LocalSize_increment(LocalSize_increment(local_size)), unfold,
                              output_value.value, output_value.heap>>)
    IN  IF output_term.term = TermData_Panic
        THEN output_term
        ELSE [term |-> TermData_FunctionTerm(value.name, output_term.term),
              heap |-> output_term.heap]

\* Value::FunctionTerm arm of read_back_value
read_back_FunctionTerm(local_size, unfold, value, heap) ==
    LET local == Value_local(LocalSize_next_level(local_size), <<>>)
        output_value == call("FunctionClosure_apply", <<value.closure, local, heap>>)
        output_term == call("read_back_value", <<LocalSize_increment(local_size), unfold,
                                       output_value.value, output_value.heap>>)
    IN  IF output_term.term = TermData_Panic
        THEN output_term
        ELSE [term |-> TermData_FunctionTerm(value.name, output_term.term),
              heap |-> output_term.heap]

\* Read-back a value into the term syntax.
read_back_value(local_size, unfold, value, heap) ==
    CASE value.tag = "Stuck" ->
            call("read_back_stuck_value", <<local_size, unfold, value.head, value.spine, heap>>)
      [] value.tag = "Unstuck" -> read_back_Unstuck(local_size, unfold, value, heap)
      [] value.tag = "TypeType" -> [term |-> TermData_TypeType(value.level), heap |-> heap]
      [] value.tag = "FunctionType" -> read_back_FunctionType(local_size, unfold, value, heap)
      [] value.tag = "FunctionTerm" -> read_back_FunctionTerm(local_size, unfold, value, heap)
      [] value.tag = "RecordType" ->
            LET r == call("read_back_entries", <<local_size, unfold, value.closure.universe_offset,
                                       Locals_clone(value.closure.locals),
                                       value.closure.entries, 1, <<>>, heap>>)
            IN  IF r.panic THEN [term |-> TermData_Panic, heap |-> r.heap]
                ELSE [term |-> TermData_RecordType(r.entries), heap |-> r.heap]
      [] value.tag = "RecordTerm" ->
            LET r == call("read_back_entries", <<local_size, unfold, value.closure.universe_offset,
                                       Locals_clone(value.closure.locals),
                                       value.closure.entries, 1, <<>>, heap>>)
            IN  IF r.panic THEN [term |-> TermData_Panic, heap |-> r.heap]
                ELSE [term |-> TermData_RecordTerm(r.entries), heap |-> r.heap]
      [] value.tag = "ArrayTerm" ->
            LET r == call("read_back_sequence",
                          <<local_size, unfold, value.entries, 1, <<>>, heap>>)
            IN  IF r.panic THEN [term |-> TermData_Panic, heap |-> r.heap]
                ELSE [term |-> TermData_ArrayTerm(r.entries), heap |-> r.heap]
      [] value.tag = "ListTerm" ->
            LET r == call("read_back_sequence",
                          <<local_size, unfold, value.entries, 1, <<>>, heap>>)
            IN  IF r.panic THEN [term |-> TermData_Panic, heap |-> r.heap]
                ELSE [term |-> TermData_ListTerm(r.entries), heap |-> r.heap]
      [] value.tag = "Constant" ->
            [term |-> TermData_Constant(value.constant), heap |-> heap]
      [] value.tag = "Error" -> [term |-> TermData_Error, heap |-> heap]
      [] value.tag = "Panic" -> [term |-> TermData_Panic, heap |-> heap]

\* Fully normalize a Term using normalization by evaluation.
normalize_term(universe_offset, locals, term, heap) ==
    LET value == call("eval_term", <<universe_offset, locals, term, heap>>)
        r == call("read_back_value", <<Locals_size(value.locals), Unfold_Always, value.value,
                             value.heap>>)
    IN  [term |-> r.term, locals |-> value.locals, heap |-> r.heap]

(***************************************************************************)
(* Conversion: definitional equality                                       *)
(***************************************************************************)
\* Head equality that ignores the universe offset of a global
Head_eq_ignoring_offset(head0, head1) ==
    IF head0.tag = "Global" /\ head1.tag = "Global"
    THEN head0.name = head1.name
    ELSE head0 = head1

\* #[derive(PartialEq, Eq)] on Head: the name and the offset of a global,
\* the level of a local
Head_eq(head0, head1) == head0 = head1

\* is_equal_spine without the arm for two record eliminations of one label
is_equal_spine_no_record_arm(local_size, spine0, spine1, i, heap) ==
    IF i > Len(spine0)
    THEN [ok |-> TRUE, heap |-> heap]
    ELSE IF spine0[i].tag = "Function" /\ spine1[i].tag = "Function"
         THEN LET input0 == call("LazyValue_force", <<spine0[i].input, heap>>)
                  input1 == call("LazyValue_force", <<spine1[i].input, input0.heap>>)
                  r == call("is_equal",
                            <<local_size, input0.value, input1.value, input1.heap>>)
              IN  IF ~r.ok THEN r
                  ELSE call("is_equal_spine", <<local_size, spine0, spine1, i + 1, r.heap>>)
         ELSE [ok |-> FALSE, heap |-> heap]

\* the loop of is_equal_stuck_value over the zipped spines, from elimination i
is_equal_spine(local_size, spine0, spine1, i, heap) ==
    IF i > Len(spine0)
    THEN [ok |-> TRUE, heap |-> heap]
    ELSE IF spine0[i].tag = "Function" /\ spine1[i].tag = "Function"
         THEN LET input0 == call("LazyValue_force", <<spine0[i].input, heap>>)
                  input1 == call("LazyValue_force", <<spine1[i].input, input0.heap>>)
                  r == call("is_equal", <<local_size, input0.value, input1.value, input1.heap>>)
              IN  IF ~r.ok THEN r
                  ELSE call("is_equal_spine", <<local_size, spine0, spine1, i + 1, r.heap>>)
         ELSE IF /\ spine0[i].tag = "Record" /\ spine1[i].tag = "Record"
                 /\ spine0[i].label = spine1[i].label
              THEN call("is_equal_spine", <<local_size, spine0, spine1, i + 1, heap>>)
              ELSE [ok |-> FALSE, heap |-> heap]

\* Check that one stuck value is equal to another stuck value.
is_equal_stuck_value(local_size, head0, spine0, head1, spine1, heap) ==
    IF ~Head_eq(head0, head1) \/ Len(spine0) # Len(spine1)
    THEN [ok |-> FALSE, heap |-> heap]
    ELSE call("is_equal_spine", <<local_size, spine0, spine1, 1, heap>>)

\* is_equal_Unstuck that forces both values before it compares the stuck
\* values
is_equal_Unstuck_forcing_first(local_size, value0, value1, heap) ==
    LET forced0 == call("LazyValue_force", <<value0.lazy, heap>>)
        forced1 == call("LazyValue_force", <<value1.lazy, forced0.heap>>)
        stuck == call("is_equal_stuck_value", <<local_size, value0.head, value0.spine,
                                                value1.head, value1.spine, forced1.heap>>)
    IN  IF stuck.ok
        THEN [ok |-> TRUE, heap |-> stuck.heap]
        ELSE call("is_equal", <<local_size, forced0.value, forced1.value, stuck.heap>>)

\* (Value::Unstuck, Value::Unstuck) arm of is_equal
is_equal_Unstuck(local_size, value0, value1, heap) ==
    LET stuck == call("is_equal_stuck_value", <<local_size, value0.head, value0.spine,
                                      value1.head, value1.spine, heap>>)
        forced0 == call("LazyValue_force", <<value0.lazy, stuck.heap>>)
        forced1 == call("LazyValue_force", <<value1.lazy, forced0.heap>>)
    IN  IF stuck.ok
        THEN [ok |-> TRUE, heap |-> stuck.heap]
        ELSE call("is_equal", <<local_size, forced0.value, forced1.value, forced1.heap>>)

\* the arm of is_equal for two universes with the test of is_subtype
is_equal_TypeType_cumulative(level0, level1) == level0 <= level1

\* (Value::TypeType, Value::TypeType) arm of is_equal
is_equal_TypeType(level0, level1) == level0 = level1

\* (Value::FunctionType, Value::FunctionType) arm of is_equal
is_equal_FunctionType(local_size, value0, value1, heap) ==
    LET input == call("is_equal", <<local_size, value1.input_type, value0.input_type, heap>>)
        local == Value_local(LocalSize_next_level(local_size), <<>>)
        output0 == call("FunctionClosure_apply", <<value0.closure, local, input.heap>>)
        output1 == call("FunctionClosure_apply", <<value1.closure, local, output0.heap>>)
    IN  IF ~input.ok
        THEN input
        ELSE call("is_equal", <<LocalSize_increment(local_size), output0.value, output1.value,
                      output1.heap>>)

\* is_equal_FunctionTerm that compares the closures as they are captured
\* instead of applying them
is_equal_FunctionTerm_by_closure(local_size, value0, value1, heap) ==
    [ok |-> value0.closure = value1.closure, heap |-> heap]

\* (Value::FunctionTerm, Value::FunctionTerm) arm of is_equal
is_equal_FunctionTerm(local_size, value0, value1, heap) ==
    LET local == Value_local(LocalSize_next_level(local_size), <<>>)
        output0 == call("FunctionClosure_apply", <<value0.closure, local, heap>>)
        output1 == call("FunctionClosure_apply", <<value1.closure, local, output0.heap>>)
    IN  call("is_equal", <<LocalSize_increment(local_size), output0.value, output1.value,
                 output1.heap>>)

\* the loop of the RecordType and RecordTerm arms of is_equal over the zipped
\* entries, from entry i; closure0.locals and closure1.locals are the
\* loop's locals0 and locals1
is_equal_entries(local_size, closure0, closure1, i, heap) ==
    IF i > Len(closure0.entries)
    THEN [ok |-> TRUE, heap |-> heap]
    ELSE IF closure0.entries[i][1] # closure1.entries[i][1]
         THEN [ok |-> FALSE, heap |-> heap]
         ELSE LET entry0 == call("eval_term", <<closure0.universe_offset, closure0.locals,
                                                closure0.entries[i][2], heap>>)
                  entry1 == call("eval_term", <<closure1.universe_offset, closure1.locals,
                                                closure1.entries[i][2], entry0.heap>>)
                  r == call("is_equal",
                            <<local_size, entry0.value, entry1.value, entry1.heap>>)
                  local == Value_local(LocalSize_next_level(local_size), <<>>)
              IN  IF ~r.ok THEN r
                  ELSE call("is_equal_entries",
                            <<LocalSize_increment(local_size),
                              [closure0 EXCEPT !.locals = Locals_push(entry0.locals, local)],
                              [closure1 EXCEPT !.locals = Locals_push(entry1.locals, local)],
                              i + 1, r.heap>>)

\* (Value::RecordType, Value::RecordType) and (Value::RecordTerm,
\* Value::RecordTerm) arms of is_equal
is_equal_Record(local_size, closure0, closure1, heap) ==
    IF Len(closure0.entries) # Len(closure1.entries)
    THEN [ok |-> FALSE, heap |-> heap]
    ELSE call("is_equal_entries",
              <<local_size,
                [closure0 EXCEPT !.locals = Locals_clone(closure0.locals)],
                [closure1 EXCEPT !.locals = Locals_clone(closure1.locals)],
                1, heap>>)

\* Iterator::zip(..).all(|(e0, e1)| is_equal(..)) of the ArrayTerm | ListTerm arm
is_equal_sequence(local_size, value_entries0, value_entries1, i, heap) ==
    IF i > Len(value_entries0)
    THEN [ok |-> TRUE, heap |-> heap]
    ELSE LET r == call("is_equal", <<local_size, value_entries0[i], value_entries1[i], heap>>)
         IN  IF ~r.ok THEN r
             ELSE call("is_equal_sequence", <<local_size, value_entries0, value_entries1, i + 1,
                                    r.heap>>)

\* the pattern of is_equal with (Value::Error, _) alone
is_equal_Error_left_only(value0, value1) == value0.tag = "Error"

\* the pattern (Value::Error, _) | (_, Value::Error) of is_equal
is_equal_Error(value0, value1) == value0.tag = "Error" \/ value1.tag = "Error"

\* Check that one value is computationally equal to another value.
is_equal(local_size, value0, value1, heap) ==
    IF value0.tag = "Stuck" /\ value1.tag = "Stuck"
    THEN call("is_equal_stuck_value", <<local_size, value0.head, value0.spine,
                              value1.head, value1.spine, heap>>)
    ELSE IF value0.tag = "Unstuck" /\ value1.tag = "Unstuck"
    THEN is_equal_Unstuck(local_size, value0, value1, heap)
    ELSE IF value0.tag = "Unstuck"
    THEN LET forced == call("LazyValue_force", <<value0.lazy, heap>>)
         IN  call("is_equal", <<local_size, forced.value, value1, forced.heap>>)
    ELSE IF value1.tag = "Unstuck"
    THEN LET forced == call("LazyValue_force", <<value1.lazy, heap>>)
         IN  call("is_equal", <<local_size, value0, forced.value, forced.heap>>)
    ELSE IF value0.tag = "TypeType" /\ value1.tag = "TypeType"
    THEN [ok |-> is_equal_TypeType(value0.level, value1.level), heap |-> heap]
    ELSE IF value0.tag = "FunctionType" /\ value1.tag = "FunctionType"
    THEN is_equal_FunctionType(local_size, value0, value1, heap)
    ELSE IF value0.tag = "FunctionTerm" /\ value1.tag = "FunctionTerm"
    THEN is_equal_FunctionTerm(local_size, value0, value1, heap)
    ELSE IF value0.tag = "RecordType" /\ value1.tag = "RecordType"
    THEN is_equal_Record(local_size, value0.closure, value1.closure, heap)
    ELSE IF value0.tag = "RecordTerm" /\ value1.tag = "RecordTerm"
    THEN is_equal_Record(local_size, value0.closure, value1.closure, heap)
    ELSE IF \/ value0.tag = "ArrayTerm" /\ value1.tag = "ArrayTerm"
            \/ value0.tag = "ListTerm" /\ value1.tag = "ListTerm"
    THEN IF Len(value0.entries) # Len(value1.entries)
         THEN [ok |-> FALSE, heap |-> heap]
         ELSE call("is_equal_sequence", <<local_size, value0.entries, value1.entries, 1, heap>>)
    ELSE IF value0.tag = "Constant" /\ value1.tag = "Constant"
    THEN [ok |-> Constant_eq(value0.constant, value1.constant), heap |-> heap]
    ELSE IF is_equal_Error(value0, value1)
    THEN [ok |-> TRUE, heap |-> heap]
    ELSE [ok |-> FALSE, heap |-> heap]

(***************************************************************************)
(* Conversion: subtyping                                                   *)
(***************************************************************************)
\* (Value::Unstuck, Value::Unstuck) arm of is_subtype
is_subtype_Unstuck(local_size, value0, value1, heap) ==
    LET stuck == call("is_equal_stuck_value", <<local_size, value0.head, value0.spine,
                                      value1.head, value1.spine, heap>>)
        forced0 == call("LazyValue_force", <<value0.lazy, stuck.heap>>)
        forced1 == call("LazyValue_force", <<value1.lazy, forced0.heap>>)
    IN  IF stuck.ok
        THEN [ok |-> TRUE, heap |-> stuck.heap]
        ELSE call("is_subtype", <<local_size, forced0.value, forced1.value, forced1.heap>>)

\* is_subtype_TypeType with a strict comparison
is_subtype_TypeType_strict(level0, level1) == level0 < level1

\* (Value::TypeType, Value::TypeType) arm of is_subtype
is_subtype_TypeType(level0, level1) == level0 <= level1

\* is_subtype_FunctionType with the input types compared covariantly
is_subtype_FunctionType_covariant_input(local_size, value0, value1, heap) ==
    LET input == call("is_subtype", <<local_size, value0.input_type, value1.input_type, heap>>)
        local == Value_local(LocalSize_next_level(local_size), <<>>)
        output0 == call("FunctionClosure_apply", <<value0.closure, local, input.heap>>)
        output1 == call("FunctionClosure_apply", <<value1.closure, local, output0.heap>>)
    IN  IF ~input.ok
        THEN input
        ELSE call("is_subtype", <<LocalSize_increment(local_size), output0.value,
                                  output1.value, output1.heap>>)

\* (Value::FunctionType, Value::FunctionType) arm of is_subtype
is_subtype_FunctionType(local_size, value0, value1, heap) ==
    LET input == call("is_subtype", <<local_size, value1.input_type, value0.input_type, heap>>)
        local == Value_local(LocalSize_next_level(local_size), <<>>)
        output0 == call("FunctionClosure_apply", <<value0.closure, local, input.heap>>)
        output1 == call("FunctionClosure_apply", <<value1.closure, local, output0.heap>>)
    IN  IF ~input.ok
        THEN input
        ELSE call("is_subtype", <<LocalSize_increment(local_size), output0.value, output1.value,
                        output1.heap>>)

\* the loop of the RecordType arm of is_subtype over the zipped entries, from
\* entry i; closure0.locals and closure1.locals are the loop's locals0 and
\* locals1
is_subtype_entries(local_size, closure0, closure1, i, heap) ==
    IF i > Len(closure0.entries)
    THEN [ok |-> TRUE, heap |-> heap]
    ELSE IF closure0.entries[i][1] # closure1.entries[i][1]
         THEN [ok |-> FALSE, heap |-> heap]
         ELSE LET entry0 == call("eval_term", <<closure0.universe_offset, closure0.locals,
                                                closure0.entries[i][2], heap>>)
                  entry1 == call("eval_term", <<closure1.universe_offset, closure1.locals,
                                                closure1.entries[i][2], entry0.heap>>)
                  r == call("is_subtype",
                            <<local_size, entry0.value, entry1.value, entry1.heap>>)
                  local == Value_local(LocalSize_next_level(local_size), <<>>)
              IN  IF ~r.ok THEN r
                  ELSE call("is_subtype_entries",
                            <<LocalSize_increment(local_size),
                              [closure0 EXCEPT !.locals = Locals_push(entry0.locals, local)],
                              [closure1 EXCEPT !.locals = Locals_push(entry1.locals, local)],
                              i + 1, r.heap>>)

\* the arm of is_subtype for record types with the labels of the second
\* closure taken from the first, so that no label differs
is_subtype_RecordType_labels_ignored(local_size, closure0, closure1, heap) ==
    IF Len(closure0.entries) # Len(closure1.entries)
    THEN [ok |-> FALSE, heap |-> heap]
    ELSE call("is_subtype_entries",
              <<local_size,
                [closure0 EXCEPT !.locals = Locals_clone(closure0.locals)],
                [closure1 EXCEPT !.locals = Locals_clone(closure1.locals),
                                 !.entries = [i \in 1..Len(closure1.entries) |->
                                                <<closure0.entries[i][1],
                                                  closure1.entries[i][2]>>]],
                1, heap>>)

\* (Value::RecordType, Value::RecordType) arm of is_subtype
is_subtype_RecordType(local_size, closure0, closure1, heap) ==
    IF Len(closure0.entries) # Len(closure1.entries)
    THEN [ok |-> FALSE, heap |-> heap]
    ELSE call("is_subtype_entries",
              <<local_size,
                [closure0 EXCEPT !.locals = Locals_clone(closure0.locals)],
                [closure1 EXCEPT !.locals = Locals_clone(closure1.locals)],
                1, heap>>)

\* the pattern of is_subtype without its second alternative
is_subtype_Error_left_only(value0, value1) == value0.tag = "Error"

\* the pattern (Value::Error, _) | (_, Value::Error) of is_subtype
is_subtype_Error(value0, value1) == value0.tag = "Error" \/ value1.tag = "Error"

\* is_subtype without the arm that unfolds an unstuck value on the right
is_subtype_right_not_unfolded(local_size, value0, value1, heap) ==
    IF value0.tag = "Stuck" /\ value1.tag = "Stuck"
    THEN call("is_equal_stuck_value", <<local_size, value0.head, value0.spine,
                              value1.head, value1.spine, heap>>)
    ELSE IF value0.tag = "Unstuck" /\ value1.tag = "Unstuck"
    THEN is_subtype_Unstuck(local_size, value0, value1, heap)
    ELSE IF value0.tag = "Unstuck"
    THEN LET forced == call("LazyValue_force", <<value0.lazy, heap>>)
         IN  call("is_subtype", <<local_size, forced.value, value1, forced.heap>>)
    ELSE IF value0.tag = "TypeType" /\ value1.tag = "TypeType"
    THEN [ok |-> is_subtype_TypeType(value0.level, value1.level), heap |-> heap]
    ELSE IF value0.tag = "FunctionType" /\ value1.tag = "FunctionType"
    THEN is_subtype_FunctionType(local_size, value0, value1, heap)
    ELSE IF value0.tag = "RecordType" /\ value1.tag = "RecordType"
    THEN is_subtype_RecordType(local_size, value0.closure, value1.closure, heap)
    ELSE IF is_subtype_Error(value0, value1)
    THEN [ok |-> TRUE, heap |-> heap]
    ELSE [ok |-> FALSE, heap |-> heap]

\* Check that one Value is a subtype of another Value.
is_subtype(local_size, value0, value1, heap) ==
    IF value0.tag = "Stuck" /\ value1.tag = "Stuck"
    THEN call("is_equal_stuck_value", <<local_size, value0.head, value0.spine,
                              value1.head, value1.spine, heap>>)
    ELSE IF value0.tag = "Unstuck" /\ value1.tag = "Unstuck"
    THEN is_subtype_Unstuck(local_size, value0, value1, heap)
    ELSE IF value0.tag = "Unstuck"
    THEN LET forced == call("LazyValue_force", <<value0.lazy, heap>>)
         IN  call("is_subtype", <<local_size, forced.value, value1, forced.heap>>)
    ELSE IF value1.tag = "Unstuck"
    THEN LET forced == call("LazyValue_force", <<value1.lazy, heap>>)
         IN  call("is_subtype", <<local_size, value0, forced.value, forced.heap>>)
    ELSE IF value0.tag = "TypeType" /\ value1.tag = "TypeType"
    THEN [ok |-> is_subtype_TypeType(value0.level, value1.level), heap |-> heap]
    ELSE IF value0.tag = "FunctionType" /\ value1.tag = "FunctionType"
    THEN is_subtype_FunctionType(local_size, value0, value1, heap)
    ELSE IF value0.tag = "RecordType" /\ value1.tag = "RecordType"
    THEN is_subtype_RecordType(local_size, value0.closure, value1.closure, heap)
    ELSE IF is_subtype_Error(value0, value1)
    THEN [ok |-> TRUE, heap |-> heap]
    ELSE [ok |-> FALSE, heap |-> heap]

(***************************************************************************)
(* Calls between the functions of the kernel.  The functions are mutually  *)
(* recursive; a call names the callee and passes its arguments in order.   *)
(***************************************************************************)
call(function, args) ==
    CASE function = "eval_term" -> eval_term(args[1], args[2], args[3], args[4])
      [] function = "eval_entries" ->
            eval_entries(args[1], args[2], args[3], args[4], args[5], args[6])
      [] function = "apply_record_elim" -> apply_record_elim(args[1], args[2], args[3])
      [] function = "apply_function_elim" ->
            apply_function_elim(args[1], args[2], args[3])
      [] function = "record_elim_type_entries" ->
            record_elim_type_entries(args[1], args[2], args[3], args[4], args[5], args[6],
                                     args[7])
      [] function = "RecordClosure_find_entry" ->
            RecordClosure_find_entry(args[1], args[2], args[3], args[4], args[5], args[6])
      [] function = "FunctionClosure_apply" ->
            FunctionClosure_apply(args[1], args[2], args[3])
      [] function = "LazyValue_force" -> LazyValue_force(args[1], args[2])
      [] function = "Value_force" -> Value_force(args[1], args[2])
      [] function = "read_back_stuck_value" ->
            read_back_stuck_value(args[1], args[2], args[3], args[4], args[5])
      [] function = "read_back_spine" ->
            read_back_spine(args[1], args[2], args[3], args[4], args[5], args[6])
      [] function = "read_back_value" ->
            read_back_value(args[1], args[2], args[3], args[4])
      [] function = "read_back_entries" ->
            read_back_entries(args[1], args[2], args[3], args[4], args[5], args[6],
                              args[7], args[8])
      [] function = "read_back_sequence" ->
            read_back_sequence(args[1], args[2], args[3], args[4], args[5], args[6])
      [] function = "is_equal_stuck_value" ->
            is_equal_stuck_value(args[1], args[2], args[3], args[4], args[5], args[6])
      [] function = "is_equal_spine" ->
            is_equal_spine(args[1], args[2], args[3], args[4], args[5])
      [] function = "is_equal" -> is_equal(args[1], args[2], args[3], args[4])
      [] function = "is_equal_entries" ->
            is_equal_entries(args[1], args[2], args[3], args[4], args[5])
      [] function = "is_equal_sequence" ->
            is_equal_sequence(args[1], args[2], args[3], args[4], args[5])
      [] function = "is_subtype" -> is_subtype(args[1], args[2], args[3], args[4])
      [] function = "is_subtype_entries" ->
            is_subtype_entries(args[1], args[2], args[3], args[4], args[5])

(***************************************************************************)
(* The earlier draft of the kernel (pikelet/src/core/semantics.rs): values *)
(* are fully evaluated, a neutral is Elim(head, spine, type), and          *)
(* is_subtype is a pure function of two values.                            *)
(***************************************************************************)
core_Value_Universe(level) == [tag |-> "Universe", level |-> level]
core_Value_Elim(head, spine, type) ==
    [tag |-> "Elim", head |-> head, spine |-> spine, type |-> type]
core_Value_Constant(constant) == [tag |-> "Constant", constant |-> constant]
core_Value_Sequence(entries) == [tag |-> "Sequence", entries |-> entries]
core_Value_RecordType(entries) == [tag |-> "RecordType", entries |-> entries]
core_Value_RecordTerm(entries) == [tag |-> "RecordTerm", entries |-> entries]
core_Value_ArrayType(len, entry_type) ==
    [tag |-> "ArrayType", len |-> len, entry_type |-> entry_type]
core_Value_ListType(entry_type) == [tag |-> "ListType", entry_type |-> entry_type]
core_Value_Error == [tag |-> "Error"]

\* Read-back an eliminator into the term syntax: the global, lifted by its
\* shift, under the projections of the spine in order.
core_read_back_elim(head, spine) ==
    [tag |-> "RecordElims",
     head |-> TermData_Lift(TermData_Global(head.name), head.offset),
     labels |-> [i \in 1..Len(spine) |-> spine[i].label]]

RECURSIVE core_is_subtype(_, _)
RECURSIVE core_is_subtype_all(_, _, _)

\* Iterator::zip(..).all(..) over sequence entries, from entry i
core_is_subtype_all(entries0, entries1, i) ==
    IF i > Len(entries0) \/ i > Len(entries1)
    THEN TRUE
    ELSE /\ core_is_subtype(entries0[i], entries1[i])
         /\ core_is_subtype_all(entries0, entries1, i + 1)

RECURSIVE core_is_subtype_entries(_, _, _)

\* Iterator::zip(..).all(..) over labelled entries, from entry i
core_is_subtype_entries(entries0, entries1, i) ==
    IF i > Len(entries0) \/ i > Len(entries1)
    THEN TRUE
    ELSE /\ entries0[i][1] = entries1[i][1]
         /\ core_is_subtype(entries0[i][2], entries1[i][2])
         /\ core_is_subtype_entries(entries0, entries1, i + 1)

\* Check that two values are equal.
core_is_subtype(value0, value1) ==
    IF value0.tag = "Universe" /\ value1.tag = "Universe"
    THEN value0.level <= value1.level
    ELSE IF value0.tag = "Elim" /\ value1.tag = "Elim"
    THEN /\ core_read_back_elim(value0.head, value0.spine)
                = core_read_back_elim(value1.head, value1.spine)
         /\ core_is_subtype(value0.type, value1.type)
    ELSE IF value0.tag = "Constant" /\ value1.tag = "Constant"
    THEN Constant_eq(value0.constant, value1.constant)
    ELSE IF value0.tag = "Sequence" /\ value1.tag = "Sequence"
    THEN /\ Len(value0.entries) = Len(value1.entries)
         /\ core_is_subtype_all(value0.entries, value1.entries, 1)
    ELSE IF value0.tag = "RecordType" /\ value1.tag = "RecordType"
    THEN /\ Len(value0.entries) = Len(value1.entries)
         /\ core_is_subtype_entries(value0.entries, value1.entries, 1)
    ELSE IF value0.tag = "RecordTerm" /\ value1.tag = "RecordTerm"
    THEN /\ Len(value0.entries) = Len(value1.entries)
         /\ core_is_subtype_entries(value0.entries, value1.entries, 1)
    ELSE IF value0.tag = "ArrayType" /\ value1.tag = "ArrayType"
    THEN /\ core_is_subtype(value0.len, value1.len)
         /\ core_is_subtype(value0.entry_type, value1.entry_type)
    ELSE IF value0.tag = "ListType" /\ value1.tag = "ListType"
    THEN core_is_subtype(value0.entry_type, value1.entry_type)
    ELSE IF value0.tag = "Error" \/ value1.tag = "Error"
    THEN TRUE
    ELSE FALSE

\* the values the earlier draft's is_subtype is run on
core_Values ==
    << core_Value_Universe(0), core_Value_Universe(1),
       core_Value_Elim(Head_Global("A", 0), <<>>, core_Value_Universe(0)),
       core_Value_Elim(Head_Global("A", 1), <<>>, core_Value_Universe(1)),
       core_Value_Elim(Head_Global("r", 0), <<Elim_Record("a")>>, core_Value_Universe(0)),
       core_Value_Constant(Constant_U32(7)), core_Value_Constant(Constant_F32(F32_NAN)),
       core_Value_Sequence(<<core_Value_Constant(Constant_U32(1)), core_Value_Error>>),
       core_Value_RecordType(<< <<"a", core_Value_Universe(0)>> >>),
       core_Value_RecordTerm(<< <<"a", core_Value_Constant(Constant_U32(1))>> >>),
       core_Value_ArrayType(core_Value_Constant(Constant_U32(1)), core_Value_Universe(0)),
       core_Value_ListType(core_Value_Universe(0)),
       core_Value_Error >>

(***************************************************************************)
(* The input terms of the model: well-scoped core terms over the globals   *)
(* above.  Terms(n) are the terms that are well-scoped under n locals.     *)
(***************************************************************************)
\* the constant terms of the input terms
ConstantOne == TermData_Constant(Constant_U32(1))
ConstantSeven == TermData_Constant(Constant_U32(7))
ConstantNaN == TermData_Constant(Constant_F32(F32_NAN))

Levels == [i \in 1..(MaxLevel + 1) |-> TermData_TypeType(i - 1)]

ClosedAtoms ==
    << TermData_Global("A"), TermData_Global("f"), TermData_Global("id"),
       TermData_Global("one"), TermData_Global("uno"), TermData_Global("T0"),
       TermData_Global("zz"), ConstantOne,
       ConstantSeven, ConstantNaN,
       TermData_Error >>

\* universe lifting, one Lift and two nested Lifts
Lifts ==
    [i \in 1..MaxOffset |-> TermData_Lift(TermData_TypeType(0), i)]
    \o [i \in 1..MaxOffset |-> TermData_Lift(TermData_Global("A"), i)]
    \o [i \in 1..MaxOffset |-> TermData_Lift(TermData_Global("T0"), i)]
    \o [i \in 1..MaxOffset |->
            TermData_Lift(TermData_FunctionTerm("x", TermData_TypeType(0)), i)]
    \o [i \in 1..MaxOffset |->
            TermData_Lift(TermData_FunctionElim(TermData_Global("f"),
                                                ConstantSeven), i)]
    \o << TermData_Lift(TermData_Lift(TermData_TypeType(0), 1), 1),
          TermData_Lift(TermData_Global("A"), 0) >>

FunctionTerms ==
    << TermData_FunctionTerm("x", TermData_Local(0)),
       TermData_FunctionTerm("y", TermData_Local(0)),
       TermData_FunctionTerm("x", ConstantSeven),
       TermData_FunctionTerm("x", ConstantNaN),
       TermData_FunctionTerm("x", TermData_TypeType(0)),
       TermData_FunctionTerm("x", TermData_FunctionTerm("y", TermData_Local(1))),
       TermData_FunctionTerm("x", TermData_FunctionElim(TermData_Global("f"),
                                                        TermData_Local(0))),
       TermData_FunctionTerm("x", TermData_FunctionElim(TermData_Global("id"),
                                                        TermData_Local(0))),
       TermData_FunctionTerm("x",
           TermData_FunctionElim(TermData_FunctionTerm("x", TermData_Local(0)),
                                 TermData_Local(0))),
       TermData_FunctionTerm("x",
           TermData_FunctionElim(
               TermData_FunctionTerm("x", ConstantSeven),
               TermData_Local(0))),
       TermData_FunctionTerm("x",
           TermData_FunctionElim(
               TermData_FunctionTerm("x", ConstantNaN),
               TermData_Local(0))) >>

FunctionElims ==
    << TermData_FunctionElim(TermData_Global("f"), ConstantNaN),
       TermData_FunctionElim(TermData_Global("id"),
                             ConstantNaN),
       TermData_FunctionElim(TermData_Global("f"), ConstantSeven),
       TermData_FunctionElim(TermData_Global("f"), ConstantOne),
       TermData_FunctionElim(TermData_Global("f"), TermData_Global("one")),
       TermData_FunctionElim(TermData_Global("f"), TermData_Global("uno")),
       TermData_FunctionElim(TermData_Global("id"), ConstantSeven),
       TermData_FunctionElim(TermData_Global("id"), ConstantOne),
       TermData_FunctionElim(TermData_Global("id"), TermData_Global("one")),
       TermData_FunctionElim(TermData_Global("id"), TermData_Global("A")),
       TermData_FunctionElim(
           TermData_FunctionElim(TermData_Global("id"), TermData_Global("id")),
           ConstantSeven),
       TermData_FunctionElim(TermData_FunctionTerm("x", TermData_Local(0)),
                             ConstantSeven),
       TermData_FunctionElim(ConstantSeven, ConstantOne),
       TermData_FunctionElim(
           TermData_FunctionElim(TermData_Global("f"), ConstantOne),
           TermData_Global("id")),
       TermData_Ann(TermData_FunctionElim(TermData_Global("id"), ConstantSeven),
                    TermData_Global("A")) >>

FunctionTypes ==
    [i \in 1..(Len(Levels) * Len(Levels)) |->
        TermData_FunctionType("a", Levels[((i - 1) \div Len(Levels)) + 1],
                              Levels[((i - 1) % Len(Levels)) + 1])]
    \o << TermData_FunctionType("a", TermData_Global("A"), TermData_Global("A")),
          TermData_FunctionType("b", TermData_Global("A"), TermData_Global("A")),
          TermData_FunctionType("a", TermData_Global("T0"), TermData_Global("A")),
          TermData_FunctionType("a", TermData_TypeType(0), TermData_Local(0)),
          TermData_FunctionType("a", TermData_Global("A"), ConstantSeven),
          TermData_FunctionType("a", ConstantSeven, TermData_Global("A")) >>

Records ==
    << TermData_RecordType(<<>>),
       TermData_RecordType(<< <<"a", TermData_TypeType(0)>> >>),
       TermData_RecordType(<< <<"b", TermData_TypeType(0)>> >>),
       TermData_RecordType(<< <<"a", TermData_TypeType(0)>>, <<"b", TermData_Local(0)>> >>),
       TermData_RecordType(<< <<"a", TermData_TypeType(1)>>, <<"b", TermData_Local(0)>> >>),
       TermData_RecordTerm(<<>>),
       TermData_RecordTerm(<< <<"a", ConstantOne>>, <<"b", TermData_Local(0)>> >>),
       TermData_RecordTerm(<< <<"a", ConstantOne>>,
                              <<"b", ConstantOne>> >>),
       TermData_RecordElim(
           TermData_RecordTerm(<< <<"a", ConstantOne>>,
                                  <<"b", TermData_Local(0)>> >>), "b"),
       TermData_RecordElim(
           TermData_RecordTerm(<< <<"a", ConstantOne>> >>), "c"),
       TermData_RecordElim(TermData_Global("f"), "a"),
       TermData_RecordElim(TermData_Global("f"), "b"),
       TermData_RecordElim(TermData_Global("id"), "a"),
       TermData_RecordElim(ConstantSeven, "a") >>

Sequences_ ==
    << TermData_ArrayTerm(<<ConstantOne, ConstantSeven>>),
       TermData_ArrayTerm(<<ConstantOne, TermData_Global("one")>>),
       TermData_ListTerm(<<ConstantOne, ConstantSeven>>),
       TermData_ListTerm(<<TermData_Global("uno"), ConstantSeven>>),
       TermData_ListTerm(<<>>) >>

ClosedTerms ==
    Levels \o ClosedAtoms \o Lifts \o FunctionTerms \o FunctionElims \o FunctionTypes
    \o Records \o Sequences_

\* terms that mention the innermost local, Local(0)
OpenTerms ==
    << TermData_Local(0),
       TermData_FunctionElim(TermData_Local(0), ConstantSeven),
       TermData_RecordElim(TermData_Local(0), "a"),
       TermData_FunctionTerm("x", TermData_FunctionElim(TermData_Local(1),
                                                        TermData_Local(0))),
       TermData_FunctionTerm("x", TermData_Local(1)),
       TermData_FunctionType("a", TermData_Local(0), TermData_Local(1)),
       TermData_FunctionElim(TermData_Global("f"), TermData_Local(0)),
       TermData_FunctionElim(TermData_Global("id"), TermData_Local(0)),
       TermData_RecordType(<< <<"a", TermData_Local(0)>>, <<"b", TermData_Local(0)>> >>),
       TermData_ListTerm(<<TermData_Local(0)>>) >>

Terms(n) == IF n = 0 THEN ClosedTerms ELSE ClosedTerms \o OpenTerms

\* the terms whose values the client binds to a local (a definition in scope)
LocalTerms == << TermData_Global("id"), ConstantSeven >>

\* a local index that is out of range under every environment of the model
EscapedLocal == TermData_Local(MaxLocals + 1)

\* terms a faulty client hands to the kernel: some hold a local that is out
\* of range, whose evaluation panics (index.to_level(..).unwrap())
UncheckedTerms ==
    << TermData_FunctionElim(TermData_Global("id"), EscapedLocal),
       TermData_FunctionElim(TermData_Global("f"), EscapedLocal),
       TermData_FunctionElim(TermData_FunctionTerm("x", ConstantSeven), EscapedLocal),
       TermData_RecordElim(TermData_FunctionElim(TermData_Global("id"), EscapedLocal), "a"),
       TermData_FunctionElim(
           TermData_FunctionElim(TermData_Global("id"), TermData_Global("id")),
           EscapedLocal),
       TermData_ArrayTerm(<<TermData_FunctionElim(TermData_Global("id"), EscapedLocal),
                            TermData_FunctionElim(TermData_Global("id"), ConstantSeven)>>),
       TermData_FunctionElim(TermData_Global("f"),
                             TermData_FunctionElim(TermData_Global("id"), EscapedLocal)),
       TermData_FunctionElim(TermData_Global("id"), ConstantSeven),
       TermData_FunctionElim(TermData_Global("id"), TermData_Global("one")),
       TermData_FunctionElim(
           TermData_FunctionElim(TermData_Global("id"), TermData_Global("id")),
           ConstantSeven),
       TermData_Global("one"),
       EscapedLocal >>

(***************************************************************************)
(* Name generation of the distillation pass (pass/core_to_surface.rs): the *)
(* usages table maps each name in use to the name it was derived from and  *)
(* a count, and the name stack holds the names of the locals in scope.     *)
(***************************************************************************)
DEFAULT_NAME == "t"

Usage(base_name, count) == [base_name |-> base_name, count |-> count]

\* core_to_surface::State::new: every global is in use, once
core_to_surface_State_new ==
    [usages |-> [name \in {GlobalNames[i] : i \in 1..Len(GlobalNames)} |-> Usage(None, 1)],
     names |-> Locals_new]

\* format!("{}-{}", base_name, suffix)
format_name(base_name, suffix) == base_name \o "-" \o ToString(suffix)

\* the loop of push_name: the first suffix from `suffix` on whose candidate
\* name has not been used
RECURSIVE free_suffix(_, _, _)
free_suffix(usages, base_name, suffix) ==
    IF format_name(base_name, suffix) \in DOMAIN usages
    THEN free_suffix(usages, base_name, suffix + 1)
    ELSE suffix

\* State::push_name: the state it leaves and the fresh name it returns
push_name(state, name_hint) ==
    LET base_name == IF name_hint = None THEN DEFAULT_NAME ELSE name_hint.value
        in_use == base_name \in DOMAIN state.usages
        counted == IF in_use
                   THEN [state.usages EXCEPT ![base_name].count = @ + 1]
                   ELSE state.usages
        fresh_name == IF in_use
                      THEN format_name(base_name,
                                       free_suffix(state.usages, base_name,
                                                   state.usages[base_name].count))
                      ELSE base_name
        usage == Usage(IF in_use THEN Some(base_name) ELSE None, 1)
    IN  [state |-> [usages |-> (fresh_name :> usage) @@ counted,
                    names |-> Locals_push(state.names, fresh_name)],
         name |-> fresh_name]

\* State::remove_usage: the table it leaves and the base name it returns
remove_usage(usages, name) ==
    IF name \in DOMAIN usages
    THEN IF usages[name].count >= 1
         THEN [usages |-> [n \in DOMAIN usages \ {name} |-> usages[n]],
               base_name |-> usages[name].base_name]
         ELSE [usages |-> [usages EXCEPT ![name].count = @ - 1], base_name |-> None]
    ELSE [usages |-> usages, base_name |-> None]

\* the loop of pop_name: remove the usage of the name, then of the name it
\* was derived from, and so on
RECURSIVE remove_usages(_, _)
remove_usages(usages, name) ==
    LET r == remove_usage(usages, name)
    IN  IF r.base_name = None THEN r.usages ELSE remove_usages(r.usages, r.base_name.value)

\* State::pop_name
pop_name(state) ==
    IF state.names = <<>>
    THEN state
    ELSE [usages |-> remove_usages(state.usages, state.names[Len(state.names)]),
          names |-> SubSeq(state.names, 1, Len(state.names) - 1)]

\* State::pop_many_names
RECURSIVE pop_many_names(_, _)
pop_many_names(state, count) ==
    IF count = 0 THEN state ELSE pop_many_names(pop_name(state), count - 1)

\* delaborate_constant: the number as it is printed
delaborate_constant(constant) ==
    [tag |-> "Literal", literal |-> [tag |-> "Number", text |-> ToString(constant.value)]]

\* the loop of the FunctionTerm arm of from_term: a name is pushed for the
\* function term and for every function term directly under it
RECURSIVE from_term_input_names(_, _, _)
from_term_input_names(state, term, input_names) ==
    LET pushed == push_name(state, Some(term.name))
        names == Append(input_names, pushed.name)
    IN  IF term.output.tag = "FunctionTerm"
        THEN from_term_input_names(pushed.state, term.output, names)
        ELSE [state |-> pushed.state, input_names |-> names, output_term |-> term.output]

\* from_term: the surface term of a core term, with the state it leaves
RECURSIVE from_term(_, _)
\* from_term mapped over the terms from the i-th on
RECURSIVE from_term_all(_, _, _)
\* the closure of the RecordType arm mapped over the entries from the i-th
\* on: the type is distilled, then the label is pushed as a name
RECURSIVE from_term_type_entries(_, _, _)
\* the loop of the FunctionElim arm: the inputs from the outermost inwards,
\* then the head
RECURSIVE from_term_input_terms(_, _, _)

from_term_all(state, terms, i) ==
    IF i > Len(terms)
    THEN [state |-> state, terms |-> <<>>]
    ELSE LET first == from_term(state, terms[i])
             rest == from_term_all(first.state, terms, i + 1)
         IN  [state |-> rest.state, terms |-> <<first.term>> \o rest.terms]

from_term_type_entries(state, entries, i) ==
    IF i > Len(entries)
    THEN [state |-> state, entries |-> <<>>]
    ELSE LET label == entries[i][1]
             type == from_term(state, entries[i][2])
             pushed == push_name(type.state, Some(label))
             entry == IF pushed.name = label
                      THEN <<label, None, type.term>>
                      ELSE <<label, Some(pushed.name), type.term>>
             rest == from_term_type_entries(pushed.state, entries, i + 1)
         IN  [state |-> rest.state, entries |-> <<entry>> \o rest.entries]

from_term_input_terms(state, term, input_terms) ==
    LET input == from_term(state, term.input)
        inputs == Append(input_terms, input.term)
    IN  IF term.head.tag = "FunctionElim"
        THEN from_term_input_terms(input.state, term.head, inputs)
        ELSE LET head == from_term(input.state, term.head)
                 reversed == [k \in 1..Len(inputs) |-> inputs[Len(inputs) + 1 - k]]
             IN  [state |-> head.state,
                  term |-> [tag |-> "FunctionElim", head |-> head.term, inputs |-> reversed]]

from_term(state, term) ==
    CASE term.tag = "TypeType" ->
            LET universe0 == IF Globals_get("Type") # None
                             THEN [tag |-> "Name", name |-> "Type"]
                             ELSE [tag |-> "Error"]
            IN  [state |-> state,
                 term |-> IF term.level = 0 THEN universe0
                          ELSE [tag |-> "Lift", term |-> universe0, offset |-> term.level]]
      [] term.tag = "Global" ->
            [state |-> state,
             term |-> IF Globals_get(term.name) # None
                      THEN [tag |-> "Name", name |-> term.name]
                      ELSE [tag |-> "Error"]]
      [] term.tag = "Local" ->
            [state |-> state,
             term |-> IF term.index < Len(state.names)
                      THEN [tag |-> "Name", name |-> state.names[Len(state.names) - term.index]]
                      ELSE [tag |-> "Error"]]
      [] term.tag = "Constant" -> [state |-> state, term |-> delaborate_constant(term.constant)]
      [] term.tag \in {"ArrayTerm", "ListTerm"} ->
            LET r == from_term_all(state, term.entries, 1)
            IN  [state |-> r.state, term |-> [tag |-> "Sequence", entries |-> r.terms]]
      [] term.tag = "Ann" ->
            LET r == from_term_all(state, <<term.term, term.type>>, 1)
            IN  [state |-> r.state,
                 term |-> [tag |-> "Ann", term |-> r.terms[1], type |-> r.terms[2]]]
      [] term.tag = "RecordType" ->
            LET r == from_term_type_entries(state, term.entries, 1)
            IN  [state |-> r.state, term |-> [tag |-> "RecordType", entries |-> r.entries]]
      [] term.tag = "RecordTerm" ->
            LET r == from_term_all(state,
                                   [i \in 1..Len(term.entries) |-> term.entries[i][2]], 1)
            IN  [state |-> pop_many_names(r.state, Len(term.entries)),
                 term |-> [tag |-> "RecordTerm",
                           entries |-> [i \in 1..Len(term.entries) |->
                                            <<term.entries[i][1], r.terms[i]>>]]]
      [] term.tag = "RecordElim" ->
            LET head == from_term(state, term.head)
            IN  [state |-> head.state,
                 term |-> [tag |-> "RecordElim", head |-> head.term, label |-> term.label]]
      [] term.tag = "FunctionType" ->
            LET input_type == from_term(state, term.input)
                pushed == push_name(input_type.state, term.hint)
                output_type == from_term(pushed.state, term.output)
            IN  [state |-> output_type.state,
                 term |-> [tag |-> "FunctionType",
                           input_type_groups |-> << <<(<<pushed.name>>), input_type.term>> >>,
                           output_type |-> output_type.term]]
      [] term.tag = "FunctionTerm" ->
            LET inputs == from_term_input_names(state, term, <<>>)
                output_term == from_term(inputs.state, inputs.output_term)
            IN  [state |-> pop_many_names(output_term.state, Len(inputs.input_names)),
                 term |-> [tag |-> "FunctionTerm", input_names |-> inputs.input_names,
                           output_term |-> output_term.term]]
      [] term.tag = "FunctionElim" -> from_term_input_terms(state, term, <<>>)
      [] term.tag = "Lift" ->
            LET r == from_term(state, term.term)
            IN  [state |-> r.state,
                 term |-> [tag |-> "Lift", term |-> r.term, offset |-> term.offset]]
      [] OTHER -> [state |-> state, term |-> [tag |-> "Error"]]

(***************************************************************************)
(* The elaborator (pass/surface_to_core.rs): surface terms, the state of   *)
(* the elaborator, and is_type, check_type and synth_type.  The state also *)
(* holds the lazy values allocated (heap) and the messages reported.       *)
(***************************************************************************)
\* is_type, check_type, synth_type and their loops call one another, the
\* kernel and the distiller through this dispatcher: see `elaborate` below
RECURSIVE elaborate(_, _)

\* semantics::eval_term and the other functions of the kernel, as the
\* elaborator calls them
semantics(function, args) == elaborate("semantics", <<function, args>>)

surface_Name(name) == [tag |-> "Name", name |-> name]
surface_Ann(term, type) == [tag |-> "Ann", term |-> term, type |-> type]
surface_Lift(term, offset) == [tag |-> "Lift", term |-> term, offset |-> offset]
\* the groups are pairs of the input names and their input type
surface_FunctionType(input_type_groups, output_type) ==
    [tag |-> "FunctionType", input_type_groups |-> input_type_groups,
     output_type |-> output_type]
surface_FunctionArrowType(input_type, output_type) ==
    [tag |-> "FunctionArrowType", input_type |-> input_type, output_type |-> output_type]
surface_FunctionTerm(input_names, output_term) ==
    [tag |-> "FunctionTerm", input_names |-> input_names, output_term |-> output_term]
surface_FunctionElim(head_term, input_terms) ==
    [tag |-> "FunctionElim", head_term |-> head_term, input_terms |-> input_terms]
\* the entries are triples of the label, the optional name and the type or term
surface_RecordType(type_entries) == [tag |-> "RecordType", type_entries |-> type_entries]
surface_RecordTerm(term_entries) == [tag |-> "RecordTerm", term_entries |-> term_entries]
surface_RecordElim(head_term, label) ==
    [tag |-> "RecordElim", head_term |-> head_term, label |-> label]
surface_Sequence(entry_terms) == [tag |-> "Sequence", entry_terms |-> entry_terms]
surface_Literal(literal) == [tag |-> "Literal", literal |-> literal]
surface_Error == [tag |-> "Error"]

Literal_Number(data) == [tag |-> "Number", data |-> data]
Literal_Char(data) == [tag |-> "Char", data |-> data]
Literal_String(data) == [tag |-> "String", data |-> data]

\* the largest universe offset: the offsets are unsigned machine integers, of
\* which the largest that the integers of the checker hold is taken here
UniverseOffset_MAX == 2147483647

\* UniverseOffset + UniverseOffset: a checked addition, None on overflow
UniverseOffset_add(offset0, offset1) ==
    IF offset1 > UniverseOffset_MAX - offset0 THEN None ELSE Some(offset0 + offset1)

\* Locals::pop_many: the last `count` entries are dropped
Locals_pop_many(locals, count) ==
    SubSeq(locals, 1, IF Len(locals) > count THEN Len(locals) - count ELSE 0)

\* State::new
State_new ==
    [universe_offset |-> 0,
     names_to_levels |-> <<>>,
     core_to_surface |-> core_to_surface_State_new,
     types |-> Locals_new,
     values |-> Locals_new,
     heap |-> <<>>,
     messages |-> <<>>]

\* State::next_level
State_next_level(state) == LocalSize_next_level(Locals_size(state.values))

\* State::get_local: the innermost entry of names_to_levels with the name,
\* its index and its type; a level is below the size of the values, the
\* entries of both being pushed and popped together
State_get_local(state, name) ==
    LET found == {i \in 1..Len(state.names_to_levels) :
                     state.names_to_levels[i][1] = Some(name)}
    IN  IF found = {}
        THEN None
        ELSE LET i == CHOOSE i \in found : \A k \in found : k <= i
                 index == LocalLevel_to_index(state.names_to_levels[i][2],
                                              Locals_size(state.values))
             IN  IF index = None \/ index.value >= Locals_size(state.types)
                 THEN None
                 ELSE Some([index |-> index.value,
                            type |-> state.types[Len(state.types) - index.value]])

\* State::push_local
State_push_local(state, name, value, type) ==
    [state EXCEPT
        !.names_to_levels = Append(@, <<name, State_next_level(state)>>),
        !.core_to_surface = push_name(@, name).state,
        !.types = Locals_push(@, type),
        !.values = Locals_push(@, value)]

\* State::push_local_param
State_push_local_param(state, name, type) ==
    LET value == Value_local(State_next_level(state), <<>>)
    IN  [state |-> State_push_local(state, name, value, type), value |-> value]

\* State::pop_local
State_pop_local(state) ==
    [state EXCEPT
        !.core_to_surface = pop_name(@),
        !.names_to_levels = SubSeq(@, 1, Len(@) - 1),
        !.types = Locals_pop(@),
        !.values = Locals_pop(@)]

\* State::pop_many_locals
State_pop_many_locals(state, count) ==
    [state EXCEPT
        !.core_to_surface = pop_many_names(@, count),
        !.names_to_levels = SubSeq(@, 1, IF Len(@) > count THEN Len(@) - count ELSE 0),
        !.types = Locals_pop_many(@, count),
        !.values = Locals_pop_many(@, count)]

\* State::report: the message is sent
State_report(state, message) == [state EXCEPT !.messages = Append(@, message)]

\* State::eval_term
State_eval_term(state, term) ==
    LET r == semantics("eval_term", <<state.universe_offset, state.values, term, state.heap>>)
    IN  [state |-> [state EXCEPT !.values = r.locals, !.heap = r.heap], value |-> r.value]

\* Value::force by the elaborator, the lazy values it forces memoised
State_force(state, value) ==
    LET r == semantics("Value_force", <<value, state.heap>>)
    IN  [state |-> [state EXCEPT !.heap = r.heap], value |-> r.value]

\* State::read_back_to_surface_term: read_back_value without unfolding (the
\* Unfold::Never of the kernel), then the distillation
State_read_back_to_surface_term(state, value) ==
    LET core_term == semantics("read_back_value",
                          <<Locals_size(state.values), Unfold_Never, value, state.heap>>)
        distilled == elaborate("from_term", <<state.core_to_surface, core_term.term>>)
    IN  [state |-> [state EXCEPT !.heap = core_term.heap,
                                 !.core_to_surface = distilled.state],
         term |-> distilled.term]

\* literal::State: the number a numeric literal spells, None when it spells
\* none
number_to_unsigned_int(data) ==
    CASE data = "1" -> Some(1)
      [] data = "7" -> Some(7)
      [] OTHER -> None

\* State::parse_unsigned with U32, and the other parsers of literals, which
\* report what they cannot parse
State_parse(state, literal, name) ==
    IF literal.tag = "Number" /\ name = "U32"
    THEN LET number == number_to_unsigned_int(literal.data)
         IN  IF number = None
             THEN [state |-> State_report(state, "InvalidLiteral"), term |-> TermData_Error]
             ELSE [state |-> state, term |-> TermData_Constant(Constant_U32(number.value))]
    ELSE [state |-> State_report(state, "InvalidLiteral"), term |-> TermData_Error]

\* the fold of check_type that wraps the output term in a function term per
\* input name, from the i-th name on
RECURSIVE core_FunctionTerms(_, _, _)
core_FunctionTerms(input_names, i, core_output_term) ==
    IF i > Len(input_names)
    THEN core_output_term
    ELSE TermData_FunctionTerm(input_names[i],
                               core_FunctionTerms(input_names, i + 1, core_output_term))

\* the fold of synth_type that wraps the output type in a function type per
\* input, from the i-th input on
RECURSIVE core_FunctionTypes(_, _, _)
core_FunctionTypes(core_inputs, i, core_output_type) ==
    IF i > Len(core_inputs)
    THEN core_output_type
    ELSE TermData_FunctionType(Some(core_inputs[i][1]), core_inputs[i][2],
                               core_FunctionTypes(core_inputs, i + 1, core_output_type))

\* the inputs of the groups of a function type, a pair of the name and the
\* input type per name
RECURSIVE input_names_of(_, _)
input_names_of(input_type_groups, i) ==
    IF i > Len(input_type_groups)
    THEN <<>>
    ELSE [k \in 1..Len(input_type_groups[i][1]) |->
            <<input_type_groups[i][1][k], input_type_groups[i][2]>>]
         \o input_names_of(input_type_groups, i + 1)

\* update_level of the FunctionType arm of synth_type
update_level(max_level, next_level) ==
    IF max_level = None \/ next_level = None
    THEN None
    ELSE Some(IF max_level.value >= next_level.value THEN max_level.value
              ELSE next_level.value)

\* the Error arm of the loop of check_type over the input names, without the
\* pop of the inputs seen
check_type_inputs_Error_not_popped(state, seen_input_count) ==
    [state |-> state, term |-> TermData_Error]

\* the Error arm of the loop of check_type over the input names: the expected
\* type is Error, the inputs seen are popped
check_type_inputs_Error(state, seen_input_count) ==
    [state |-> State_pop_many_locals(state, seen_input_count), term |-> TermData_Error]

\* Check that a term is a type, and return the elaborated term and the
\* universe level it inhabits.
is_type(state, term) ==
    LET synth == elaborate("synth_type", <<state, term>>)
        forced == State_force(synth.state, synth.type)
    IN  CASE forced.value.tag = "TypeType" ->
                [state |-> forced.state, term |-> synth.term,
                 level |-> Some(forced.value.level)]
          [] forced.value.tag = "Error" ->
                [state |-> forced.state, term |-> TermData_Error, level |-> None]
          [] OTHER ->
                LET found_type == State_read_back_to_surface_term(forced.state, forced.value)
                IN  [state |-> State_report(found_type.state, "MismatchedTypes"),
                     term |-> TermData_Error, level |-> None]

\* the loop of the FunctionTerm arm of check_type over the input names, from
\* the i-th on, and what follows it
check_type_inputs(state, term, expected_type, i, seen_input_count) ==
    IF i > Len(term.input_names)
    THEN LET output == elaborate("check_type", <<state, term.output_term, expected_type>>)
         IN  [state |-> State_pop_many_locals(output.state, seen_input_count),
              term |-> core_FunctionTerms(term.input_names, 1, output.term)]
    ELSE LET forced == State_force(state, expected_type)
         IN  CASE forced.value.tag = "FunctionType" ->
                    LET pushed == State_push_local_param(forced.state,
                                                         Some(term.input_names[i]),
                                                         forced.value.input_type)
                        output == semantics("FunctionClosure_apply",
                                       <<forced.value.closure, pushed.value,
                                         pushed.state.heap>>)
                    IN  elaborate("check_type_inputs",
                                  <<[pushed.state EXCEPT !.heap = output.heap], term,
                                    output.value, i + 1, seen_input_count + 1>>)
               [] forced.value.tag = "Error" ->
                    check_type_inputs_Error(forced.state, seen_input_count)
               [] OTHER ->
                    LET reported == State_report(forced.state, "TooManyInputsInFunctionTerm")
                        output == elaborate("check_type",
                                            <<reported, term.output_term, expected_type>>)
                    IN  [state |-> State_pop_many_locals(output.state, seen_input_count),
                         term |-> TermData_Error]

\* the callback of the RecordTerm arm of check_type for one entry of the
\* record type: the pending term entries from the j-th on are taken until one
\* has the label, which is checked and pushed; args is the record of the
\* entries elaborated and the labels missing and unexpected so far
check_type_on_entry(state, label, entry_type, term_entries, j, entries) ==
    IF j > Len(term_entries)
    THEN [state |-> state, value |-> Value_Error, j |-> j,
          entries |-> [entries EXCEPT !.missing_labels = Append(@, label)]]
    ELSE IF term_entries[j][1] = label
    THEN LET next_name == IF term_entries[j][2] = None THEN term_entries[j][1]
                          ELSE term_entries[j][2].value
             checked == elaborate("check_type", <<state, term_entries[j][3], entry_type>>)
             evaluated == State_eval_term(checked.state, checked.term)
         IN  [state |-> State_push_local(evaluated.state, Some(next_name), evaluated.value,
                                         entry_type),
              value |-> evaluated.value, j |-> j + 1,
              entries |-> [entries EXCEPT
                              !.core_term_entries = Append(@, <<label, checked.term>>)]]
    ELSE elaborate("check_type_on_entry",
                   <<state, label, entry_type, term_entries, j + 1,
                     [entries EXCEPT !.unexpected_labels = Append(@, term_entries[j][1])]>>)

\* RecordClosure::for_each_entry with the callback of check_type, from the
\* i-th entry of the closure on; locals are the locals of the loop
check_type_entries(state, closure, locals, i, term_entries, j, entries) ==
    IF i > Len(closure.entries)
    THEN [state |-> state, j |-> j, entries |-> entries]
    ELSE LET entry_type == semantics("eval_term", <<closure.universe_offset, locals,
                                               closure.entries[i][2], state.heap>>)
             on_entry == elaborate("check_type_on_entry",
                                   <<[state EXCEPT !.heap = entry_type.heap],
                                     closure.entries[i][1], entry_type.value,
                                     term_entries, j, entries>>)
         IN  elaborate("check_type_entries",
                       <<on_entry.state, closure,
                         Locals_push(entry_type.locals, on_entry.value), i + 1,
                         term_entries, on_entry.j, on_entry.entries>>)

\* the (RecordTerm, RecordType) arm of check_type
check_type_RecordTerm(state, term, closure) ==
    LET r == elaborate("check_type_entries",
                       <<state, closure, Locals_clone(closure.locals), 1,
                         term.term_entries, 1,
                         [core_term_entries |-> <<>>, missing_labels |-> <<>>,
                          unexpected_labels |-> <<>>]>>)
        popped == State_pop_many_locals(r.state, Len(r.entries.core_term_entries))
        invalid == \/ r.entries.missing_labels # <<>>
                   \/ r.entries.unexpected_labels # <<>>
                   \/ r.j <= Len(term.term_entries)
    IN  [state |-> IF invalid THEN State_report(popped, "InvalidRecordTerm") ELSE popped,
         term |-> TermData_RecordTerm(r.entries.core_term_entries)]

\* check_type mapped over the entries of a sequence, from the i-th on
check_type_all(state, entry_terms, i, core_entry_type) ==
    IF i > Len(entry_terms)
    THEN [state |-> state, terms |-> <<>>]
    ELSE LET first == elaborate("check_type", <<state, entry_terms[i], core_entry_type>>)
             rest == elaborate("check_type_all",
                               <<first.state, entry_terms, i + 1, core_entry_type>>)
         IN  [state |-> rest.state, terms |-> <<first.term>> \o rest.terms]

\* the (Sequence, Stuck(Global)) arm of check_type; the sequence elaborated is
\* the array term of the kernel under Array and its list term under List
check_type_Sequence(state, term, expected_type, name, spine) ==
    IF name = "Array" /\ Len(spine) = 2
       /\ spine[1].tag = "Function" /\ spine[2].tag = "Function"
    THEN LET core_entry_type == semantics("LazyValue_force", <<spine[2].input, state.heap>>)
             checked == elaborate("check_type_all",
                                  <<[state EXCEPT !.heap = core_entry_type.heap],
                                    term.entry_terms, 1, core_entry_type.value>>)
             len == semantics("LazyValue_force", <<spine[1].input, checked.state.heap>>)
             forced == [checked.state EXCEPT !.heap = len.heap]
         IN  IF len.value.tag = "Constant"
             THEN IF len.value.constant = Constant_U32(Len(term.entry_terms))
                  THEN [state |-> forced, term |-> TermData_ArrayTerm(checked.terms)]
                  ELSE LET expected_len == State_read_back_to_surface_term(forced, len.value)
                       IN  [state |-> State_report(expected_len.state,
                                                   "MismatchedSequenceLength"),
                            term |-> TermData_Error]
             ELSE IF len.value.tag = "Error"
             THEN [state |-> forced, term |-> TermData_Error]
             ELSE LET expected_len == State_read_back_to_surface_term(forced, len.value)
                  IN  [state |-> State_report(expected_len.state, "MismatchedSequenceLength"),
                       term |-> TermData_Error]
    ELSE IF name = "List" /\ Len(spine) = 1 /\ spine[1].tag = "Function"
    THEN LET core_entry_type == semantics("LazyValue_force", <<spine[1].input, state.heap>>)
             checked == elaborate("check_type_all",
                                  <<[state EXCEPT !.heap = core_entry_type.heap],
                                    term.entry_terms, 1, core_entry_type.value>>)
         IN  [state |-> checked.state, term |-> TermData_ListTerm(checked.terms)]
    ELSE LET surface == State_read_back_to_surface_term(state, expected_type)
         IN  [state |-> State_report(surface.state, "NoSequenceConversion"),
              term |-> TermData_Error]

\* the last arm of check_type: the type is synthesised and must be a subtype
\* of the expected type
check_type_synth(state, term, expected_type) ==
    LET synth == elaborate("synth_type", <<state, term>>)
        subtype == semantics("is_subtype", <<Locals_size(synth.state.values), synth.type,
                                        expected_type, synth.state.heap>>)
        compared == [synth.state EXCEPT !.heap = subtype.heap]
    IN  IF subtype.ok
        THEN [state |-> compared, term |-> synth.term]
        ELSE LET found_type == State_read_back_to_surface_term(compared, synth.type)
                 expected == State_read_back_to_surface_term(found_type.state, expected_type)
             IN  [state |-> State_report(expected.state, "MismatchedTypes"),
                  term |-> TermData_Error]

\* Check that a term is an element of a type, and return the elaborated term.
check_type(state, term, expected_type) ==
    LET forced == State_force(state, expected_type)
        expected == forced.value
        stuck_global == expected.tag = "Stuck" /\ expected.head.tag = "Global"
    IN  IF expected.tag = "Error"
        THEN [state |-> forced.state, term |-> TermData_Error]
        ELSE IF term.tag = "FunctionTerm"
        THEN elaborate("check_type_inputs", <<forced.state, term, expected_type, 1, 0>>)
        ELSE IF term.tag = "RecordTerm" /\ expected.tag = "RecordType"
        THEN check_type_RecordTerm(forced.state, term, expected.closure)
        ELSE IF term.tag = "Sequence" /\ stuck_global
        THEN check_type_Sequence(forced.state, term, expected_type, expected.head.name,
                                 expected.spine)
        ELSE IF term.tag = "Sequence"
        THEN LET surface == State_read_back_to_surface_term(forced.state, expected_type)
             IN  [state |-> State_report(surface.state, "NoSequenceConversion"),
                  term |-> TermData_Error]
        ELSE IF term.tag = "Literal" /\ stuck_global
        THEN IF expected.spine = <<>>
                /\ \/ term.literal.tag = "Number"
                      /\ expected.head.name \in {"U8", "U16", "U32", "U64", "S8", "S16",
                                                 "S32", "S64", "F32", "F64"}
                   \/ term.literal.tag = "Char" /\ expected.head.name = "Char"
                   \/ term.literal.tag = "String" /\ expected.head.name = "String"
             THEN State_parse(forced.state, term.literal, expected.head.name)
             ELSE LET surface == State_read_back_to_surface_term(forced.state,
                                                                 expected_type)
                  IN  [state |-> State_report(surface.state, "NoLiteralConversion"),
                       term |-> TermData_Error]
        ELSE IF term.tag = "Literal"
        THEN LET surface == State_read_back_to_surface_term(forced.state, expected_type)
             IN  [state |-> State_report(surface.state, "NoLiteralConversion"),
                  term |-> TermData_Error]
        ELSE check_type_synth(forced.state, term, expected_type)

\* the loops of the FunctionType arm of synth_type over the names of the
\* groups, from the i-th input on: is_type of the input type, then the push
synth_type_inputs(state, inputs, i, max_level, core_inputs) ==
    IF i > Len(inputs)
    THEN [state |-> state, max_level |-> max_level, core_inputs |-> core_inputs]
    ELSE LET input_type == elaborate("is_type", <<state, inputs[i][2]>>)
             evaluated == State_eval_term(input_type.state, input_type.term)
             pushed == State_push_local_param(evaluated.state, Some(inputs[i][1]),
                                              evaluated.value)
         IN  elaborate("synth_type_inputs",
                       <<pushed.state, inputs, i + 1,
                         update_level(max_level, input_type.level),
                         Append(core_inputs, <<inputs[i][1], input_type.term>>)>>)

\* the FunctionType arm of synth_type
synth_type_FunctionType(state, term) ==
    LET inputs == elaborate("synth_type_inputs",
                            <<state, input_names_of(term.input_type_groups, 1), 1, Some(0),
                              <<>> >>)
        output_type == elaborate("is_type", <<inputs.state, term.output_type>>)
        max_level == update_level(inputs.max_level, output_type.level)
        popped == State_pop_many_locals(output_type.state, Len(inputs.core_inputs))
    IN  IF max_level = None
        THEN [state |-> popped, term |-> TermData_Error, type |-> Value_Error]
        ELSE [state |-> popped,
              term |-> core_FunctionTypes(inputs.core_inputs, 1, output_type.term),
              type |-> Value_TypeType(max_level.value)]

\* the FunctionArrowType arm of synth_type
synth_type_FunctionArrowType(state, term) ==
    LET input_type == elaborate("is_type", <<state, term.input_type>>)
        evaluated == IF input_type.level = None
                     THEN [state |-> input_type.state, value |-> Value_Error]
                     ELSE State_eval_term(input_type.state, input_type.term)
        pushed == State_push_local_param(evaluated.state, None, evaluated.value)
        output_type == elaborate("is_type", <<pushed.state, term.output_type>>)
        popped == State_pop_local(output_type.state)
    IN  IF input_type.level # None /\ output_type.level # None
        THEN [state |-> popped,
              term |-> TermData_FunctionType(None, input_type.term, output_type.term),
              type |-> Value_TypeType(IF input_type.level.value >= output_type.level.value
                                      THEN input_type.level.value
                                      ELSE output_type.level.value)]
        ELSE [state |-> popped, term |-> TermData_Error, type |-> Value_Error]

\* the loop of the FunctionElim arm of synth_type over the input terms, from
\* the i-th on
synth_type_input_terms(state, input_terms, i, core_head_term, head_type) ==
    IF i > Len(input_terms)
    THEN [state |-> state, term |-> core_head_term, type |-> head_type]
    ELSE LET forced == State_force(state, head_type)
         IN  CASE forced.value.tag = "FunctionType" ->
                    LET core_input == elaborate("check_type",
                                                <<forced.state, input_terms[i],
                                                  forced.value.input_type>>)
                        evaluated == State_eval_term(core_input.state, core_input.term)
                        output == semantics("FunctionClosure_apply",
                                       <<forced.value.closure, evaluated.value,
                                         evaluated.state.heap>>)
                    IN  elaborate("synth_type_input_terms",
                                  <<[evaluated.state EXCEPT !.heap = output.heap],
                                    input_terms, i + 1,
                                    TermData_FunctionElim(core_head_term, core_input.term),
                                    output.value>>)
               [] forced.value.tag = "Error" ->
                    [state |-> forced.state, term |-> TermData_Error, type |-> Value_Error]
               [] OTHER ->
                    LET surface == State_read_back_to_surface_term(forced.state, head_type)
                    IN  [state |-> State_report(surface.state, "TooManyInputsInFunctionElim"),
                         term |-> TermData_Error, type |-> Value_Error]

\* the loop of the RecordType arm of synth_type over the type entries, from
\* the i-th on, and what follows it; seen_labels are the keys of the map
synth_type_type_entries(state, type_entries, i, max_level, seen_labels, entries) ==
    IF i > Len(type_entries)
    THEN [state |-> State_pop_many_locals(
                        IF entries.duplicate_labels # <<>>
                        THEN State_report(state, "InvalidRecordType") ELSE state,
                        Cardinality(seen_labels)),
          term |-> TermData_RecordType(entries.core_type_entries),
          type |-> Value_TypeType(max_level)]
    ELSE LET label == type_entries[i][1]
             name == IF type_entries[i][2] = None THEN label ELSE type_entries[i][2].value
             entry_type == elaborate("is_type", <<state, type_entries[i][3]>>)
         IN  IF label \notin seen_labels
             THEN IF entry_type.level = None
                  THEN [state |-> State_pop_many_locals(entry_type.state,
                                                        Cardinality(seen_labels)),
                        term |-> TermData_Error, type |-> Value_Error]
                  ELSE LET evaluated == State_eval_term(entry_type.state, entry_type.term)
                           pushed == State_push_local_param(evaluated.state, Some(name),
                                                            evaluated.value)
                       IN  elaborate("synth_type_type_entries",
                                     <<pushed.state, type_entries, i + 1,
                                       IF max_level >= entry_type.level.value
                                       THEN max_level ELSE entry_type.level.value,
                                       seen_labels \cup {label},
                                       [entries EXCEPT !.core_type_entries =
                                            Append(@, <<label, entry_type.term>>)]>>)
             ELSE elaborate("synth_type_type_entries",
                            <<entry_type.state, type_entries, i + 1, max_level, seen_labels,
                              [entries EXCEPT !.duplicate_labels = Append(@, label)]>>)

\* the RecordElim arm of synth_type
synth_type_RecordElim(state, term) ==
    LET head == elaborate("synth_type", <<state, term.head_term>>)
        forced == State_force(head.state, head.type)
        evaluated == State_eval_term(forced.state, head.term)
        entry_type == elaborate("record_elim_type",
                                <<evaluated.value, term.label, forced.value.closure,
                                  evaluated.state.heap>>)
        not_found == LET at == IF forced.value.tag = "RecordType"
                               THEN [evaluated.state EXCEPT !.heap = entry_type.heap]
                               ELSE forced.state
                         surface == State_read_back_to_surface_term(at, head.type)
                     IN  [state |-> State_report(surface.state, "LabelNotFound"),
                          term |-> TermData_Error, type |-> Value_Error]
    IN  CASE forced.value.tag = "RecordType" ->
                IF entry_type.value.tag = "Some"
                THEN [state |-> [evaluated.state EXCEPT !.heap = entry_type.heap],
                      term |-> TermData_RecordElim(head.term, term.label),
                      type |-> entry_type.value.value]
                ELSE not_found
          [] forced.value.tag = "Error" ->
                [state |-> forced.state, term |-> TermData_Error, type |-> Value_Error]
          [] OTHER -> not_found

\* Synthesize the type of a surface term, and return the elaborated term.
synth_type(state, term) ==
    CASE term.tag = "Name" ->
            LET local == State_get_local(state, term.name)
                global == Globals_get(term.name)
            IN  IF local # None
                THEN [state |-> state, term |-> TermData_Local(local.value.index),
                      type |-> local.value.type]
                ELSE IF global # None
                THEN LET type == State_eval_term(state, global.type)
                     IN  [state |-> type.state,
                          term |-> IF state.universe_offset = 0
                                   THEN TermData_Global(term.name)
                                   ELSE TermData_Lift(TermData_Global(term.name),
                                                      state.universe_offset),
                          type |-> type.value]
                ELSE [state |-> State_report(state, "UnboundName"),
                      term |-> TermData_Error, type |-> Value_Error]
      [] term.tag = "Ann" ->
            LET core_type == elaborate("is_type", <<state, term.type>>)
                core_type_value == State_eval_term(core_type.state, core_type.term)
                core_term == elaborate("check_type",
                                       <<core_type_value.state, term.term,
                                         core_type_value.value>>)
            IN  [state |-> core_term.state,
                 term |-> TermData_Ann(core_term.term, core_type.term),
                 type |-> core_type_value.value]
      [] term.tag = "Lift" ->
            LET new_offset == UniverseOffset_add(state.universe_offset, term.offset)
            IN  IF new_offset # None
                THEN LET old_offset == state.universe_offset
                         inner == elaborate("synth_type",
                                            <<[state EXCEPT
                                                  !.universe_offset = new_offset.value],
                                              term.term>>)
                     IN  [state |-> [inner.state EXCEPT !.universe_offset = old_offset],
                          term |-> inner.term, type |-> inner.type]
                ELSE [state |-> State_report(state, "MaximumUniverseLevelReached"),
                      term |-> TermData_Error, type |-> Value_Error]
      [] term.tag = "FunctionType" -> synth_type_FunctionType(state, term)
      [] term.tag = "FunctionArrowType" -> synth_type_FunctionArrowType(state, term)
      [] term.tag = "FunctionTerm" ->
            [state |-> State_report(state, "AmbiguousTerm"),
             term |-> TermData_Error, type |-> Value_Error]
      [] term.tag = "FunctionElim" ->
            LET head == elaborate("synth_type", <<state, term.head_term>>)
            IN  elaborate("synth_type_input_terms",
                          <<head.state, term.input_terms, 1, head.term, head.type>>)
      [] term.tag = "RecordTerm" ->
            IF term.term_entries = <<>>
            THEN [state |-> state, term |-> TermData_RecordTerm(<<>>),
                  type |-> Value_RecordType(
                               RecordClosure_new(state.universe_offset,
                                                 Locals_clone(state.values), <<>>))]
            ELSE [state |-> State_report(state, "AmbiguousTerm"),
                  term |-> TermData_Error, type |-> Value_Error]
      [] term.tag = "RecordType" ->
            elaborate("synth_type_type_entries",
                      <<state, term.type_entries, 1, 0, {},
                        [core_type_entries |-> <<>>, duplicate_labels |-> <<>>]>>)
      [] term.tag = "RecordElim" -> synth_type_RecordElim(state, term)
      [] term.tag = "Sequence" ->
            [state |-> State_report(state, "AmbiguousTerm"),
             term |-> TermData_Error, type |-> Value_Error]
      [] term.tag = "Literal" ->
            IF term.literal.tag = "Number"
            THEN [state |-> State_report(state, "AmbiguousTerm"),
                  term |-> TermData_Error, type |-> Value_Error]
            ELSE LET name == IF term.literal.tag = "Char" THEN "Char" ELSE "String"
                     parsed == State_parse(state, term.literal, name)
                 IN  [state |-> parsed.state, term |-> parsed.term,
                      type |-> Value_global(name, 0, <<>>)]
      [] OTHER -> [state |-> state, term |-> TermData_Error, type |-> Value_Error]

elaborate(function, args) ==
    CASE function = "semantics" -> call(args[1], args[2])
      [] function = "record_elim_type" ->
            record_elim_type(args[1], args[2], args[3], args[4])
      [] function = "from_term" -> from_term(args[1], args[2])
      [] function = "eval_term" -> State_eval_term(args[1], args[2])
      [] function = "is_type" -> is_type(args[1], args[2])
      [] function = "check_type" -> check_type(args[1], args[2], args[3])
      [] function = "synth_type" -> synth_type(args[1], args[2])
      [] function = "check_type_inputs" ->
            check_type_inputs(args[1], args[2], args[3], args[4], args[5])
      [] function = "check_type_on_entry" ->
            check_type_on_entry(args[1], args[2], args[3], args[4], args[5], args[6])
      [] function = "check_type_entries" ->
            check_type_entries(args[1], args[2], args[3], args[4], args[5], args[6], args[7])
      [] function = "check_type_all" -> check_type_all(args[1], args[2], args[3], args[4])
      [] function = "synth_type_inputs" ->
            synth_type_inputs(args[1], args[2], args[3], args[4], args[5])
      [] function = "synth_type_input_terms" ->
            synth_type_input_terms(args[1], args[2], args[3], args[4], args[5])
      [] function = "synth_type_type_entries" ->
            synth_type_type_entries(args[1], args[2], args[3], args[4], args[5], args[6])

(***************************************************************************)
(* Shared ownership of values: Arc<Value> cells with their strong counts.    *)
(***************************************************************************)
\* no cell allocated, no handle held, no elimination applied
Arcs_new == [cells |-> <<>>, handles |-> <<>>, before |-> <<>>, applied |-> 0, result |-> 0]

\* Arc::make_mut that hands out the cell itself whatever its strong count
Arc_make_mut_in_place(cells, ptr) == [cells |-> cells, ptr |-> ptr]

\* Arc::make_mut(&mut head_value): the cell itself when the handle is the
\* only one, else a new cell with a clone of the value, the handle moved to it
Arc_make_mut(cells, ptr) ==
    IF cells[ptr].strong = 1
    THEN [cells |-> cells, ptr |-> ptr]
    ELSE [cells |-> Append([cells EXCEPT ![ptr].strong = @ - 1],
                           [value |-> cells[ptr].value, strong |-> 1]),
          ptr |-> Len(cells) + 1]

(***************************************************************************)
(* The lexer of the surface language (lang/surface/lexer.rs).  A source is *)
(* a sequence of characters, a position an offset into it.  The characters *)
(* modelled are a letter, the dot, the space and one that starts no token. *)
(***************************************************************************)
Alphabet == {"a", ".", " ", "@"}

\* \p{Whitespace}, skipped
Whitespace(char) == char = " "

\* [a-zA-Z], the first character of a Name, and [a-zA-Z0-9\-], the others
NameStart(char) == char = "a"
NameContinue(char) == char = "a"

Token_Name(text) == [tag |-> "Name", text |-> text]
Token_Dot == [tag |-> "Dot"]
Token_Error == [tag |-> "Error"]

\* the offset of the first character from `position` on that is not skipped
RECURSIVE skip_whitespace(_, _)
skip_whitespace(source, position) ==
    IF position < Len(source) /\ Whitespace(source[position + 1])
    THEN skip_whitespace(source, position + 1)
    ELSE position

\* the end of the longest match of [a-zA-Z0-9\-]* from `position` on
RECURSIVE name_end(_, _)
name_end(source, position) ==
    IF position < Len(source) /\ NameContinue(source[position + 1])
    THEN name_end(source, position + 1)
    ELSE position

\* one step of Token::lexer(source).spanned(): the next token with its range,
\* None at the end of the source; a character that starts no token is an
\* Error token of its own, and lexing goes on behind it
lexer_next(source, position) ==
    LET start == skip_whitespace(source, position)
    IN  IF start >= Len(source)
        THEN None
        ELSE IF NameStart(source[start + 1])
        THEN LET end_ == name_end(source, start + 1)
             IN  Some([token |-> Token_Name(SubSeq(source, start + 1, end_)),
                       start |-> start, end_ |-> end_])
        ELSE IF source[start + 1] = "."
        THEN Some([token |-> Token_Dot, start |-> start, end_ |-> start + 1])
        ELSE Some([token |-> Token_Error, start |-> start, end_ |-> start + 1])

\* the closure of `tokens` that turns every token into an Ok item
tokens_item_always_ok(token, start, end_) ==
    [tag |-> "Ok", start |-> start, token |-> token, end_ |-> end_]

\* the closure of `tokens`: Token::Error becomes Err(InvalidToken) at the
\* range, any other token Ok((start, token, end))
tokens_item(token, start, end_) ==
    IF token = Token_Error
    THEN [tag |-> "Err", start |-> start, end_ |-> end_]
    ELSE [tag |-> "Ok", start |-> start, token |-> token, end_ |-> end_]

\* tokens(file_id, source) before its first item is taken
tokens(source) == [source |-> source, position |-> 0, items |-> <<>>]

(***************************************************************************)
(* The client of the kernel (the elaborator state of                       *)
(* pass/surface_to_core.rs): it owns the universe offset, the local value  *)
(* environment and the values it has evaluated, and calls the kernel.      *)
(***************************************************************************)
VARIABLES
    universe_offset,  \* State::universe_offset
    locals,           \* State::values, the local value environment
    heap,             \* the lazy values allocated so far
    value0,           \* the first value the client holds, with its term, or None
    value1,           \* the second value the client holds, with its term, or None
    out,              \* the last kernel call and what it returned
    core_to_surface,   \* State::core_to_surface, the names of the locals in scope
    lexer,             \* the token stream of the lexer and the items taken from it
    arcs,              \* the Arc<Value> cells the client shares and its handles on them
    elaborator        \* the State of the elaborator

vars == <<universe_offset, locals, heap, value0, value1, out, core_to_surface, lexer, arcs, elaborator>>

NoCall == [op |-> "none", ok |-> FALSE, term |-> TermData_Error, result |-> TermData_Error,
           size_before |-> 0, size_after |-> 0, heap_before |-> <<>>, lazy |-> 0, label |-> "",
           held |-> None, name |-> "", expected |-> TermData_Error]

\* State::new
Init ==
    /\ universe_offset = 0
    /\ locals = Locals_new
    /\ heap = <<>>
    /\ value0 = None
    /\ value1 = None
    /\ out = NoCall
    /\ core_to_surface = core_to_surface_State_new
    /\ lexer = tokens(<<>>)
    /\ arcs = Arcs_new
    /\ elaborator = State_new

\* the name hint of the binders the client elaborates
LocalHint == Some("x")

Idle == value0 = None /\ value1 = None /\ out.op = "none"

\* synth_type of a Lift: the offset is replaced while the lifted term is
\* elaborated
EnterLift ==
    /\ Idle
    /\ universe_offset < MaxOffset
    /\ universe_offset' = universe_offset + 1
    /\ UNCHANGED <<locals, heap, value0, value1, out>>
    /\ UNCHANGED core_to_surface
    /\ UNCHANGED lexer
    /\ UNCHANGED arcs
    /\ UNCHANGED elaborator

\* State::push_local_param: a fresh local at the next level
PushLocalParam ==
    /\ Idle
    /\ Locals_size(locals) < MaxLocals
    /\ locals' = Locals_push(locals,
                             Value_local(LocalSize_next_level(Locals_size(locals)), <<>>))
    /\ UNCHANGED <<universe_offset, heap, value0, value1, out>>
    /\ core_to_surface' = push_name(core_to_surface, LocalHint).state
    /\ UNCHANGED lexer
    /\ UNCHANGED arcs
    /\ UNCHANGED elaborator

\* State::push_local with the value of an elaborated term
PushLocal ==
    /\ Idle
    /\ Locals_size(locals) < MaxLocals
    /\ \E i \in 1..Len(LocalTerms) :
        LET r == call("eval_term", <<universe_offset, locals, LocalTerms[i], heap>>)
        IN  /\ locals' = Locals_push(r.locals, r.value)
            /\ heap' = r.heap
    /\ UNCHANGED <<universe_offset, value0, value1, out>>
    /\ core_to_surface' = push_name(core_to_surface, LocalHint).state
    /\ UNCHANGED lexer
    /\ UNCHANGED arcs
    /\ UNCHANGED elaborator

\* State::eval_term, the value kept as the first value
Eval0 ==
    /\ Idle
    /\ \E i \in 1..Len(Terms(Locals_size(locals))) :
        LET term == Terms(Locals_size(locals))[i]
            r == call("eval_term", <<universe_offset, locals, term, heap>>)
        IN  /\ value0' = [term |-> term, value |-> r.value]
            /\ locals' = r.locals
            /\ heap' = r.heap
            /\ out' = [NoCall EXCEPT !.op = "eval", !.term = term,
                                     !.size_before = Locals_size(locals),
                                     !.size_after = Locals_size(r.locals),
                                     !.heap_before = heap]
    /\ UNCHANGED <<universe_offset, value1>>
    /\ UNCHANGED core_to_surface
    /\ UNCHANGED lexer
    /\ UNCHANGED arcs
    /\ UNCHANGED elaborator

\* State::eval_term, the value kept as the second value
Eval1 ==
    /\ value0 # None /\ value1 = None /\ out.op = "eval"
    /\ \E i \in 1..Len(Terms(Locals_size(locals))) :
        LET term == Terms(Locals_size(locals))[i]
            r == call("eval_term", <<universe_offset, locals, term, heap>>)
        IN  /\ value1' = [term |-> term, value |-> r.value]
            /\ locals' = r.locals
            /\ heap' = r.heap
            /\ out' = [NoCall EXCEPT !.op = "eval", !.term = term,
                                     !.size_before = Locals_size(locals),
                                     !.size_after = Locals_size(r.locals),
                                     !.heap_before = heap]
    /\ UNCHANGED <<universe_offset, value0>>
    /\ UNCHANGED core_to_surface
    /\ UNCHANGED lexer
    /\ UNCHANGED arcs
    /\ UNCHANGED elaborator

\* value0.clone(): the client holds the same value twice
CloneValue ==
    /\ value0 # None /\ value1 = None /\ out.op = "eval"
    /\ value1' = value0
    /\ UNCHANGED <<universe_offset, locals, heap, value0, out>>
    /\ UNCHANGED core_to_surface
    /\ UNCHANGED lexer
    /\ UNCHANGED arcs
    /\ UNCHANGED elaborator

\* State::normalize_term
Normalize ==
    /\ Idle
    /\ \E i \in 1..Len(Terms(Locals_size(locals))) :
        LET term == Terms(Locals_size(locals))[i]
            r == normalize_term(universe_offset, locals, term, heap)
        IN  /\ locals' = r.locals
            /\ heap' = r.heap
            /\ out' = [NoCall EXCEPT !.op = "normalize", !.term = term,
                                     !.result = r.term,
                                     !.size_before = Locals_size(locals),
                                     !.size_after = Locals_size(r.locals),
                                     !.heap_before = heap]
    /\ UNCHANGED <<universe_offset, value0, value1>>
    /\ UNCHANGED core_to_surface
    /\ UNCHANGED lexer
    /\ UNCHANGED arcs
    /\ UNCHANGED elaborator

\* State::eval_term on a term the client did not scope-check
EvalUnchecked ==
    /\ Idle
    /\ \E i \in 1..Len(UncheckedTerms) :
        LET term == UncheckedTerms[i]
            r == call("eval_term", <<universe_offset, locals, term, heap>>)
        IN  /\ value0' = [term |-> term, value |-> r.value]
            /\ locals' = r.locals
            /\ heap' = r.heap
            /\ out' = [NoCall EXCEPT !.op = "eval", !.term = term,
                                     !.size_before = Locals_size(locals),
                                     !.size_after = Locals_size(r.locals),
                                     !.heap_before = heap]
    /\ UNCHANGED <<universe_offset, value1>>
    /\ UNCHANGED core_to_surface
    /\ UNCHANGED lexer
    /\ UNCHANGED arcs
    /\ UNCHANGED elaborator

\* LazyValue::force on one of the lazy values allocated so far; a panic of
\* the initialiser unwinds to the client, which goes on
Force ==
    /\ value0 # None /\ value1 = None /\ out.op \in {"eval", "force"}
    /\ \E lazy \in 1..Len(heap) :
        LET r == call("LazyValue_force", <<lazy, heap>>)
        IN  /\ heap' = r.heap
            /\ out' = [NoCall EXCEPT !.op = "force", !.lazy = lazy, !.result = r.value,
                                     !.size_before = Locals_size(locals),
                                     !.size_after = Locals_size(locals),
                                     !.heap_before = heap]
    /\ UNCHANGED <<universe_offset, locals, value0, value1>>
    /\ UNCHANGED core_to_surface
    /\ UNCHANGED lexer
    /\ UNCHANGED arcs
    /\ UNCHANGED elaborator

Loaded == value0 # None /\ value1 # None /\ out.op = "eval"

\* State::read_back_value of the first value
ReadBack ==
    /\ Loaded
    /\ \E unfold \in {Unfold_Never, Unfold_Always} :
        LET r == call("read_back_value", <<Locals_size(locals), unfold, value0.value, heap>>)
        IN  /\ heap' = r.heap
            /\ out' = [NoCall EXCEPT !.op = "read_back", !.term = value0.term,
                                     !.result = r.term,
                                     !.size_before = Locals_size(locals),
                                     !.size_after = Locals_size(locals),
                                     !.heap_before = heap]
    /\ UNCHANGED <<universe_offset, locals, value0, value1>>
    /\ UNCHANGED core_to_surface
    /\ UNCHANGED lexer
    /\ UNCHANGED arcs
    /\ UNCHANGED elaborator

\* is_equal of the two values at the size of the local environment
IsEqual ==
    /\ Loaded
    /\ LET r == call("is_equal", <<Locals_size(locals), value0.value, value1.value, heap>>)
       IN  /\ heap' = r.heap
           /\ out' = [NoCall EXCEPT !.op = "is_equal", !.ok = r.ok,
                                    !.size_before = Locals_size(locals),
                                    !.size_after = Locals_size(locals),
                                    !.heap_before = heap]
    /\ UNCHANGED <<universe_offset, locals, value0, value1>>
    /\ UNCHANGED core_to_surface
    /\ UNCHANGED lexer
    /\ UNCHANGED arcs
    /\ UNCHANGED elaborator

\* State::is_subtype of the two values
IsSubtype ==
    /\ Loaded
    /\ LET r == call("is_subtype", <<Locals_size(locals), value0.value, value1.value, heap>>)
       IN  /\ heap' = r.heap
           /\ out' = [NoCall EXCEPT !.op = "is_subtype", !.ok = r.ok,
                                    !.size_before = Locals_size(locals),
                                    !.size_after = Locals_size(locals),
                                    !.heap_before = heap]
    /\ UNCHANGED <<universe_offset, locals, value0, value1>>
    /\ UNCHANGED core_to_surface
    /\ UNCHANGED lexer
    /\ UNCHANGED arcs
    /\ UNCHANGED elaborator

\* is_subtype of the earlier draft, on two of its values
CoreIsSubtype ==
    /\ Idle
    /\ \E i \in 1..Len(core_Values), j \in 1..Len(core_Values) :
        out' = [NoCall EXCEPT !.op = "core_is_subtype",
                              !.ok = core_is_subtype(core_Values[i], core_Values[j]),
                              !.term = core_Values[i], !.result = core_Values[j]]
    /\ UNCHANGED <<universe_offset, locals, heap, value0, value1>>
    /\ UNCHANGED core_to_surface
    /\ UNCHANGED lexer
    /\ UNCHANGED arcs
    /\ UNCHANGED elaborator

Next ==
    \/ EnterLift
    \/ PushLocalParam
    \/ PushLocal
    \/ Eval0
    \/ Eval1
    \/ CloneValue
    \/ Normalize
    \/ ReadBack
    \/ IsEqual
    \/ IsSubtype
    \/ CoreIsSubtype
    \/ Force

Spec == Init /\ [][Next]_vars

\* the labels a record elimination is elaborated with
Labels == {"a", "b", "c"}

\* head terms of the record eliminations that are elaborated
HeadTerms ==
    << TermData_RecordTerm(<< <<"a", TermData_Global("A")>>,
                              <<"b", TermData_Global("one")>> >>),
       TermData_RecordTerm(<< <<"a", TermData_Global("A")>>,
                              <<"b", TermData_Global("one")>>,
                              <<"c", TermData_Global("uno")>> >>),
       TermData_RecordTerm(<< <<"a", ConstantOne>>, <<"b", TermData_Local(0)>> >>),
       TermData_RecordTerm(<< <<"a", TermData_TypeType(0)>>,
                              <<"b", TermData_Global("A")>> >>),
       TermData_RecordTerm(<<>>),
       TermData_Global("f"),
       TermData_FunctionElim(TermData_Global("id"),
                             TermData_RecordTerm(<< <<"a", TermData_Global("A")>>,
                                                    <<"b", TermData_Global("one")>> >>)) >>

\* the record types the head terms are given
HeadTypes ==
    << TermData_RecordType(<<>>),
       TermData_RecordType(<< <<"a", TermData_TypeType(0)>> >>),
       TermData_RecordType(<< <<"a", TermData_TypeType(0)>>, <<"b", TermData_Local(0)>> >>),
       TermData_RecordType(<< <<"a", TermData_TypeType(0)>>, <<"b", TermData_Local(0)>>,
                              <<"c", TermData_Local(1)>> >>),
       TermData_RecordType(<< <<"a", TermData_TypeType(1)>>, <<"b", TermData_TypeType(0)>>,
                              <<"c", TermData_Local(0)>> >>),
       TermData_RecordType(<< <<"a", TermData_TypeType(1)>>, <<"b", TermData_Global("A")>> >>) >>

\* State::eval_term on the head term of a record elimination
EvalHead ==
    /\ Idle
    /\ \E i \in 1..Len(HeadTerms) :
        LET term == HeadTerms[i]
            r == call("eval_term", <<universe_offset, locals, term, heap>>)
        IN  /\ value0' = [term |-> term, value |-> r.value]
            /\ locals' = r.locals
            /\ heap' = r.heap
            /\ out' = [NoCall EXCEPT !.op = "eval", !.term = term,
                                     !.size_before = Locals_size(locals),
                                     !.size_after = Locals_size(r.locals),
                                     !.heap_before = heap]
    /\ UNCHANGED <<universe_offset, value1>>
    /\ UNCHANGED core_to_surface
    /\ UNCHANGED lexer
    /\ UNCHANGED arcs
    /\ UNCHANGED elaborator

\* State::eval_term on the type of the head term
EvalHeadType ==
    /\ value0 # None /\ value1 = None /\ out.op = "eval"
    /\ \E i \in 1..Len(HeadTypes) :
        LET term == HeadTypes[i]
            r == call("eval_term", <<universe_offset, locals, term, heap>>)
        IN  /\ value1' = [term |-> term, value |-> r.value]
            /\ locals' = r.locals
            /\ heap' = r.heap
            /\ out' = [NoCall EXCEPT !.op = "eval", !.term = term,
                                     !.size_before = Locals_size(locals),
                                     !.size_after = Locals_size(r.locals),
                                     !.heap_before = heap]
    /\ UNCHANGED <<universe_offset, value0>>
    /\ UNCHANGED core_to_surface
    /\ UNCHANGED lexer
    /\ UNCHANGED arcs
    /\ UNCHANGED elaborator

\* State::record_elim_type of the head value and its record type
RecordElimType ==
    /\ Loaded
    /\ value1.value.tag = "RecordType"
    /\ \E label \in Labels :
        LET r == record_elim_type(value0.value, label, value1.value.closure, heap)
        IN  /\ heap' = r.heap
            /\ out' = [NoCall EXCEPT !.op = "record_elim_type", !.label = label,
                                     !.result = r.value,
                                     !.size_before = Locals_size(locals),
                                     !.size_after = Locals_size(locals),
                                     !.heap_before = heap]
    /\ UNCHANGED <<universe_offset, locals, value0, value1>>
    /\ UNCHANGED core_to_surface
    /\ UNCHANGED lexer
    /\ UNCHANGED arcs
    /\ UNCHANGED elaborator

\* the elaboration of record eliminations
NextRecordElim ==
    \/ PushLocalParam
    \/ PushLocal
    \/ EvalHead
    \/ EvalHeadType
    \/ RecordElimType

SpecRecordElim == Init /\ [][NextRecordElim]_vars

\* State::eval_term on a term under at least one local
EvalOpen ==
    /\ Idle
    /\ Locals_size(locals) > 0
    /\ \E i \in 1..Len(OpenTerms) :
        LET term == OpenTerms[i]
            r == call("eval_term", <<universe_offset, locals, term, heap>>)
        IN  /\ value0' = [term |-> term, value |-> r.value]
            /\ locals' = r.locals
            /\ heap' = r.heap
            /\ out' = [NoCall EXCEPT !.op = "eval", !.term = term,
                                     !.size_before = Locals_size(locals),
                                     !.size_after = Locals_size(r.locals),
                                     !.heap_before = heap]
    /\ UNCHANGED <<universe_offset, value1>>
    /\ UNCHANGED core_to_surface
    /\ UNCHANGED lexer
    /\ UNCHANGED arcs
    /\ UNCHANGED elaborator

\* the client holds one value and goes on working on its environment
Held ==
    /\ value0 # None /\ value1 = None
    /\ out.op \in {"eval", "pop", "push", "apply", "project"}

\* State::pop_local that also pops the environment the held closure captured,
\* as if the two were one shared environment
PopLocal_shared_with_closure ==
    /\ Held
    /\ Locals_size(locals) > 0
    /\ locals' = SubSeq(locals, 1, Len(locals) - 1)
    /\ value0' = IF /\ value0.value.tag \in {"FunctionTerm", "FunctionType",
                                              "RecordTerm", "RecordType"}
                    /\ Len(value0.value.closure.locals) > 0
                 THEN [value0 EXCEPT !.value.closure.locals = SubSeq(@, 1, Len(@) - 1)]
                 ELSE value0
    /\ out' = [NoCall EXCEPT !.op = "pop", !.term = value0.term, !.held = value0.value,
                             !.size_before = Locals_size(locals),
                             !.size_after = Locals_size(locals) - 1,
                             !.heap_before = heap]
    /\ UNCHANGED <<universe_offset, heap, value1>>
    /\ core_to_surface' = pop_name(core_to_surface)
    /\ UNCHANGED lexer
    /\ UNCHANGED arcs
    /\ UNCHANGED elaborator

\* State::pop_local while a value of the popped scope is still held
PopLocal ==
    /\ Held
    /\ Locals_size(locals) > 0
    /\ locals' = SubSeq(locals, 1, Len(locals) - 1)
    /\ out' = [NoCall EXCEPT !.op = "pop", !.term = value0.term, !.held = value0.value,
                             !.size_before = Locals_size(locals),
                             !.size_after = Locals_size(locals) - 1,
                             !.heap_before = heap]
    /\ UNCHANGED <<universe_offset, heap, value0, value1>>
    /\ core_to_surface' = pop_name(core_to_surface)
    /\ UNCHANGED lexer
    /\ UNCHANGED arcs
    /\ UNCHANGED elaborator

\* State::read_back_value of the value held, at the size the environment
\* has now; a panic of the read-back unwinds to the client
ReadBackHeld ==
    /\ value0 # None /\ value1 = None /\ out.op \in {"eval", "pop"}
    /\ \E unfold \in {Unfold_Never, Unfold_Always} :
        LET r == call("read_back_value", <<Locals_size(locals), unfold, value0.value, heap>>)
        IN  /\ heap' = r.heap
            /\ out' = [NoCall EXCEPT !.op = "read_back", !.term = value0.term,
                                     !.result = r.term,
                                     !.size_before = Locals_size(locals),
                                     !.size_after = Locals_size(locals),
                                     !.heap_before = heap]
    /\ UNCHANGED <<universe_offset, locals, value0, value1>>
    /\ UNCHANGED core_to_surface
    /\ UNCHANGED lexer
    /\ UNCHANGED arcs
    /\ UNCHANGED elaborator

\* the elaborator reading a value back after leaving the scope it was built in
NextEscaped ==
    \/ PushLocalParam
    \/ PushLocal
    \/ EvalOpen
    \/ PopLocal
    \/ ReadBackHeld

SpecEscaped == Init /\ [][NextEscaped]_vars

\* the terms that are lifted
LiftedTerms ==
    Levels
    \o << TermData_Global("A"), TermData_Global("f"), TermData_Global("T0"),
          TermData_Global("id"), ConstantSeven,
          TermData_FunctionTerm("x", TermData_TypeType(0)),
          TermData_FunctionType("_", TermData_TypeType(0), TermData_Global("A")),
          TermData_RecordType(<< <<"a", TermData_TypeType(0)>>, <<"b", TermData_Local(0)>> >>),
          TermData_RecordTerm(<< <<"a", TermData_TypeType(0)>> >>),
          TermData_FunctionElim(TermData_Global("f"), TermData_TypeType(0)),
          TermData_FunctionElim(TermData_Global("id"), TermData_TypeType(0)),
          TermData_ListTerm(<<TermData_TypeType(0), TermData_Global("T0")>>),
          TermData_Lift(TermData_TypeType(0), 1) >>

\* State::eval_term on a term lifted twice
EvalLifted ==
    /\ Idle
    /\ \E i \in 1..Len(LiftedTerms), a \in 0..MaxOffset, b \in 0..MaxOffset :
        LET term == TermData_Lift(TermData_Lift(LiftedTerms[i], a), b)
            r == call("eval_term", <<universe_offset, locals, term, heap>>)
        IN  /\ value0' = [term |-> term, value |-> r.value]
            /\ locals' = r.locals
            /\ heap' = r.heap
            /\ out' = [NoCall EXCEPT !.op = "eval", !.term = term,
                                     !.size_before = Locals_size(locals),
                                     !.size_after = Locals_size(r.locals),
                                     !.heap_before = heap]
    /\ UNCHANGED <<universe_offset, value1>>
    /\ UNCHANGED core_to_surface
    /\ UNCHANGED lexer
    /\ UNCHANGED arcs
    /\ UNCHANGED elaborator

\* the elaboration of lifted terms
NextLift ==
    \/ EnterLift
    \/ PushLocalParam
    \/ PushLocal
    \/ EvalLifted

SpecLift == Init /\ [][NextLift]_vars

\* terms whose values capture the environment they are evaluated in
CaptureTerms ==
    OpenTerms
    \o << TermData_RecordTerm(<< <<"a", TermData_Local(0)>>, <<"b", TermData_Local(1)>> >>),
          TermData_FunctionType("a", TermData_TypeType(0), TermData_Local(1)),
          TermData_FunctionElim(TermData_Global("f"),
                                TermData_FunctionTerm("x", TermData_Local(1))) >>

\* State::eval_term on a term that captures the environment
EvalCapture ==
    /\ Idle
    /\ Locals_size(locals) > 0
    /\ \E i \in 1..Len(CaptureTerms) :
        LET term == CaptureTerms[i]
            r == call("eval_term", <<universe_offset, locals, term, heap>>)
        IN  /\ value0' = [term |-> term, value |-> r.value]
            /\ locals' = r.locals
            /\ heap' = r.heap
            /\ out' = [NoCall EXCEPT !.op = "eval", !.term = term,
                                     !.size_before = Locals_size(locals),
                                     !.size_after = Locals_size(r.locals),
                                     !.heap_before = heap]
    /\ UNCHANGED <<universe_offset, value1>>
    /\ UNCHANGED core_to_surface
    /\ UNCHANGED lexer
    /\ UNCHANGED arcs
    /\ UNCHANGED elaborator

\* State::push_local_param or State::push_local while a value is held
PushHeld ==
    /\ Held
    /\ Locals_size(locals) < MaxLocals
    /\ Len(heap) < MaxHeap
    /\ \/ /\ locals' = Locals_push(locals,
                                    Value_local(LocalSize_next_level(Locals_size(locals)),
                                                <<>>))
          /\ heap' = heap
       \/ \E i \in 1..Len(LocalTerms) :
            LET r == call("eval_term", <<universe_offset, locals, LocalTerms[i], heap>>)
            IN  /\ locals' = Locals_push(r.locals, r.value)
                /\ heap' = r.heap
    /\ out' = [NoCall EXCEPT !.op = "push", !.term = value0.term, !.held = value0.value,
                             !.size_before = Locals_size(locals),
                             !.size_after = Locals_size(locals) + 1,
                             !.heap_before = heap]
    /\ UNCHANGED <<universe_offset, value0, value1>>
    /\ core_to_surface' = push_name(core_to_surface, LocalHint).state
    /\ UNCHANGED lexer
    /\ UNCHANGED arcs
    /\ UNCHANGED elaborator

\* FunctionClosure::apply of the closure of the held function term or type
ApplyHeld ==
    /\ Held
    /\ Len(heap) < MaxHeap
    /\ value0.value.tag \in {"FunctionTerm", "FunctionType"}
    /\ \E input \in {Value_Constant(Constant_U32(7)),
                      Value_local(LocalSize_next_level(Locals_size(locals)), <<>>)} :
        LET r == call("FunctionClosure_apply", <<value0.value.closure, input, heap>>)
        IN  /\ heap' = r.heap
            /\ out' = [NoCall EXCEPT !.op = "apply", !.term = value0.term,
                                     !.held = value0.value,
                                     !.result = r.value,
                                     !.size_before = Locals_size(locals),
                                     !.size_after = Locals_size(locals),
                                     !.heap_before = heap]
    /\ UNCHANGED <<universe_offset, locals, value0, value1>>
    /\ UNCHANGED core_to_surface
    /\ UNCHANGED lexer
    /\ UNCHANGED arcs
    /\ UNCHANGED elaborator

\* apply_record_elim on the held record term: RecordClosure::find_entry
ProjectHeld ==
    /\ Held
    /\ Len(heap) < MaxHeap
    /\ value0.value.tag = "RecordTerm"
    /\ \E label \in Labels :
        LET r == call("apply_record_elim", <<value0.value, label, heap>>)
        IN  /\ heap' = r.heap
            /\ out' = [NoCall EXCEPT !.op = "project", !.term = value0.term,
                                     !.held = value0.value,
                                     !.label = label, !.result = r.value,
                                     !.size_before = Locals_size(locals),
                                     !.size_after = Locals_size(locals),
                                     !.heap_before = heap]
    /\ UNCHANGED <<universe_offset, locals, value0, value1>>
    /\ UNCHANGED core_to_surface
    /\ UNCHANGED lexer
    /\ UNCHANGED arcs
    /\ UNCHANGED elaborator

\* a client that goes on pushing and popping locals while it holds a value
NextCapture ==
    \/ PushLocalParam
    \/ PushLocal
    \/ EvalCapture
    \/ PushHeld
    \/ PopLocal
    \/ ApplyHeld
    \/ ProjectHeld

SpecCapture == Init /\ [][NextCapture]_vars

\* the heads that are projected: record terms whose later fields name the
\* earlier ones, a record term with a label bound twice, and heads that are
\* no record terms
ProjectTerms ==
    << TermData_RecordTerm(<<>>),
       TermData_RecordTerm(<< <<"a", ConstantOne>>, <<"b", TermData_Local(0)>> >>),
       TermData_RecordTerm(<< <<"a", ConstantOne>>, <<"a", ConstantSeven>> >>),
       TermData_RecordTerm(<< <<"a", ConstantOne>>, <<"b", ConstantSeven>>,
                              <<"c", TermData_Local(1)>> >>),
       TermData_RecordTerm(<< <<"a", ConstantOne>>, <<"b", ConstantSeven>>,
                              <<"c", TermData_Local(0)>> >>),
       TermData_RecordTerm(<< <<"b", TermData_Global("one")>>,
                              <<"a", TermData_RecordTerm(<< <<"c", TermData_Local(0)>> >>)>>,
                              <<"b", TermData_RecordElim(TermData_Local(0), "c")>> >>),
       TermData_RecordType(<< <<"a", TermData_TypeType(0)>> >>),
       TermData_FunctionTerm("x", TermData_Local(0)),
       TermData_TypeType(0),
       ConstantSeven,
       TermData_Error,
       TermData_Global("f"),
       TermData_Global("id") >>

\* State::eval_term on the head of a record elimination
EvalProjected ==
    /\ Idle
    /\ \E i \in 1..Len(ProjectTerms) :
        LET term == ProjectTerms[i]
            r == call("eval_term", <<universe_offset, locals, term, heap>>)
        IN  /\ value0' = [term |-> term, value |-> r.value]
            /\ locals' = r.locals
            /\ heap' = r.heap
            /\ out' = [NoCall EXCEPT !.op = "eval", !.term = term,
                                     !.size_before = Locals_size(locals),
                                     !.size_after = Locals_size(r.locals),
                                     !.heap_before = heap]
    /\ UNCHANGED <<universe_offset, value1>>
    /\ UNCHANGED core_to_surface
    /\ UNCHANGED lexer
    /\ UNCHANGED arcs
    /\ UNCHANGED elaborator

\* apply_record_elim on the held head value, whatever it is
Project ==
    /\ Held
    /\ Len(heap) < MaxHeap
    /\ \E label \in Labels :
        LET r == call("apply_record_elim", <<value0.value, label, heap>>)
        IN  /\ heap' = r.heap
            /\ out' = [NoCall EXCEPT !.op = "project", !.term = value0.term,
                                     !.held = value0.value,
                                     !.label = label, !.result = r.value,
                                     !.size_before = Locals_size(locals),
                                     !.size_after = Locals_size(locals),
                                     !.heap_before = heap]
    /\ UNCHANGED <<universe_offset, locals, value0, value1>>
    /\ UNCHANGED core_to_surface
    /\ UNCHANGED lexer
    /\ UNCHANGED arcs
    /\ UNCHANGED elaborator

\* a client that projects the fields of the values it holds
NextProject ==
    \/ PushLocalParam
    \/ PushLocal
    \/ EvalProjected
    \/ Project

SpecProject == Init /\ [][NextProject]_vars

\* the terms whose values are shared: neutrals, and heads that are consumed
SharedTerms ==
    << TermData_Global("f"), TermData_Global("id"), TermData_Global("one"),
       TermData_FunctionTerm("x", TermData_Local(0)),
       TermData_RecordTerm(<< <<"a", ConstantOne>> >>) >>

\* Arc::new of a value just evaluated
NewShared ==
    /\ Len(arcs.cells) < MaxArcs
    /\ Len(heap) < MaxHeap
    /\ \E i \in 1..Len(SharedTerms) :
        LET r == call("eval_term", <<universe_offset, locals, SharedTerms[i], heap>>)
        IN  /\ heap' = r.heap
            /\ arcs' = [Arcs_new EXCEPT
                            !.cells = Append(arcs.cells, [value |-> r.value, strong |-> 1]),
                            !.handles = Append(arcs.handles, Len(arcs.cells) + 1)]
            /\ out' = [NoCall EXCEPT !.op = "eval", !.term = SharedTerms[i],
                                     !.heap_before = heap]
    /\ UNCHANGED <<universe_offset, locals, value0, value1>>
    /\ UNCHANGED core_to_surface
    /\ UNCHANGED lexer
    /\ UNCHANGED elaborator

\* value.clone() of the Local arm of eval_term: one more handle on the cell
CloneShared ==
    /\ Len(arcs.handles) < MaxArcs
    /\ \E k \in 1..Len(arcs.handles) :
        LET ptr == arcs.handles[k]
        IN  arcs' = [Arcs_new EXCEPT
                        !.cells = [arcs.cells EXCEPT ![ptr].strong = @ + 1],
                        !.handles = Append(arcs.handles, ptr)]
    /\ out' = [NoCall EXCEPT !.op = "clone"]
    /\ UNCHANGED <<universe_offset, locals, heap, value0, value1>>
    /\ UNCHANGED core_to_surface
    /\ UNCHANGED lexer
    /\ UNCHANGED elaborator

\* the handles without the k-th
RemoveHandle(handles, k) ==
    SubSeq(handles, 1, k - 1) \o SubSeq(handles, k + 1, Len(handles))

\* apply_record_elim or apply_function_elim as it moves head_value: a neutral
\* is extended where Arc::make_mut points and that handle is returned; a
\* head of another kind is dropped and the result is a new cell
ApplyMoved(k, elim) ==
    LET made == Arc_make_mut(arcs.cells, arcs.handles[k])
        head_value == made.cells[made.ptr].value
        r == IF elim.tag = "Record"
             THEN call("apply_record_elim", <<head_value, elim.label, heap>>)
             ELSE call("apply_function_elim", <<head_value, elim.input, heap>>)
        others == RemoveHandle(arcs.handles, k)
    IN  /\ head_value.tag \in {"Stuck", "Unstuck"} => Len(head_value.spine) < MaxSpine
        /\ heap' = r.heap
        /\ IF head_value.tag \in {"Stuck", "Unstuck"}
           THEN arcs' = [cells |-> [made.cells EXCEPT ![made.ptr].value = r.value],
                         handles |-> Append(others, made.ptr),
                         before |-> arcs.cells,
                         applied |-> arcs.handles[k],
                         result |-> made.ptr]
           ELSE arcs' = [cells |-> Append([made.cells EXCEPT ![made.ptr].strong = @ - 1],
                                          [value |-> r.value, strong |-> 1]),
                         handles |-> Append(others, Len(made.cells) + 1),
                         before |-> arcs.cells,
                         applied |-> arcs.handles[k],
                         result |-> Len(made.cells) + 1]
        /\ out' = [NoCall EXCEPT !.op = "apply", !.heap_before = heap,
                                 !.held = arcs.cells[arcs.handles[k]].value]

\* apply_record_elim on a value that may be shared
ApplyRecordShared ==
    /\ Len(arcs.cells) < MaxArcs
    /\ Len(heap) < MaxHeap
    /\ \E k \in 1..Len(arcs.handles), label \in {"a", "b"} :
        ApplyMoved(k, Elim_Record(label))
    /\ UNCHANGED <<universe_offset, locals, value0, value1>>
    /\ UNCHANGED core_to_surface
    /\ UNCHANGED lexer
    /\ UNCHANGED elaborator

\* apply_function_elim on a value that may be shared, the input a lazy value
\* on the heap
ApplyFunctionShared ==
    /\ Len(arcs.cells) < MaxArcs
    /\ Len(heap) < MaxHeap
    /\ \E k \in 1..Len(arcs.handles), input \in 1..Len(heap) :
        ApplyMoved(k, Elim_Function(input))
    /\ UNCHANGED <<universe_offset, locals, value0, value1>>
    /\ UNCHANGED core_to_surface
    /\ UNCHANGED lexer
    /\ UNCHANGED elaborator

\* a client that shares values and applies eliminations to them
NextShared ==
    \/ NewShared
    \/ CloneShared
    \/ ApplyRecordShared
    \/ ApplyFunctionShared

SpecShared == Init /\ [][NextShared]_vars

\* the name hints of the binders that are distilled
NameHints == {None, Some("x"), Some("A"), Some("x-1"), Some("A-1")}

\* core_to_surface::State::push_name
PushName ==
    /\ Len(core_to_surface.names) < MaxNames
    /\ \E name_hint \in NameHints :
        LET r == push_name(core_to_surface, name_hint)
        IN  /\ core_to_surface' = r.state
            /\ out' = [NoCall EXCEPT !.op = "push_name", !.name = r.name]
    /\ UNCHANGED <<universe_offset, locals, heap, value0, value1>>
    /\ UNCHANGED lexer
    /\ UNCHANGED arcs
    /\ UNCHANGED elaborator

\* core_to_surface::State::pop_name
PopName ==
    /\ core_to_surface' = pop_name(core_to_surface)
    /\ out' = [NoCall EXCEPT !.op = "pop_name"]
    /\ UNCHANGED <<universe_offset, locals, heap, value0, value1>>
    /\ UNCHANGED lexer
    /\ UNCHANGED arcs
    /\ UNCHANGED elaborator

\* the distillation pushing and popping the names of binders
NextNames ==
    \/ PushName
    \/ PopName

SpecNames == Init /\ [][NextNames]_vars

\* the core terms that are distilled: binders of every kind and nestings
DistillTerms ==
    << ConstantOne,
       TermData_Global("A"),
       TermData_Local(0),
       TermData_TypeType(1),
       TermData_FunctionTerm("x", TermData_Local(0)),
       TermData_FunctionTerm("x", TermData_FunctionTerm("x", TermData_Local(1))),
       TermData_FunctionElim(TermData_FunctionElim(TermData_Global("f"), ConstantOne),
                             TermData_FunctionTerm("A", TermData_Local(0))),
       TermData_FunctionType(Some("x"), TermData_Global("A"), TermData_Local(0)),
       TermData_FunctionType(None, TermData_Global("A"), TermData_Global("A")),
       TermData_RecordType(<<>>),
       TermData_RecordType(<< <<"x", TermData_TypeType(0)>>, <<"A", TermData_Local(0)>> >>),
       TermData_RecordTerm(<<>>),
       TermData_RecordTerm(<< <<"x", ConstantOne>> >>),
       TermData_RecordTerm(<< <<"x", ConstantOne>>, <<"A", TermData_Local(0)>> >>),
       TermData_FunctionTerm("x",
           TermData_RecordTerm(<< <<"x", TermData_Local(0)>> >>)),
       TermData_Ann(TermData_RecordTerm(<< <<"x", ConstantOne>> >>),
                    TermData_RecordType(<< <<"x", TermData_Global("A")>> >>)),
       TermData_ListTerm(<< TermData_FunctionTerm("x", TermData_Local(0)), ConstantOne >>),
       TermData_Lift(TermData_Global("A"), 1),
       TermData_RecordElim(TermData_Global("one"), "x"),
       TermData_Error >>

\* core_to_surface::from_term on the state of the distillation
FromTerm ==
    /\ Len(core_to_surface.names) < MaxNames
    /\ \E i \in 1..Len(DistillTerms) :
        LET r == from_term(core_to_surface, DistillTerms[i])
        IN  /\ core_to_surface' = r.state
            /\ out' = [NoCall EXCEPT !.op = "from_term", !.term = DistillTerms[i],
                                     !.result = r.term,
                                     !.held = core_to_surface.names,
                                     !.size_before = Len(core_to_surface.names),
                                     !.size_after = Len(r.state.names)]
    /\ UNCHANGED <<universe_offset, locals, heap, value0, value1>>
    /\ UNCHANGED lexer
    /\ UNCHANGED arcs
    /\ UNCHANGED elaborator

\* a client that distills core terms under the names of the binders in scope
NextDistill ==
    \/ PushName
    \/ FromTerm

SpecDistill == Init /\ [][NextDistill]_vars

\* the sources that are lexed: every sequence of at most MaxSource characters
Sources == UNION {[1..n -> Alphabet] : n \in 0..MaxSource}

\* tokens(file_id, source) on one of the sources
InitLexer ==
    /\ universe_offset = 0
    /\ locals = Locals_new
    /\ heap = <<>>
    /\ value0 = None
    /\ value1 = None
    /\ out = NoCall
    /\ core_to_surface = core_to_surface_State_new
    /\ \E source \in Sources : lexer = tokens(source)
    /\ arcs = Arcs_new
    /\ elaborator = State_new

\* Iterator::next on the token stream, the item collected
NextToken ==
    /\ lexer_next(lexer.source, lexer.position) # None
    /\ LET lexed == lexer_next(lexer.source, lexer.position).value
       IN  lexer' = [lexer EXCEPT
                        !.position = lexed.end_,
                        !.items = Append(@, tokens_item(lexed.token, lexed.start,
                                                        lexed.end_))]
    /\ UNCHANGED <<universe_offset, locals, heap, value0, value1, out, core_to_surface>>
    /\ UNCHANGED arcs
    /\ UNCHANGED elaborator

\* collecting the token stream of a source
NextLexer ==
    \/ NextToken

SpecLexer == InitLexer /\ [][NextLexer]_vars

\* the types of the parameters in scope when the elaborator is entered
ElaborateParamTypes ==
    << TermData_Global("A"),
       TermData_TypeType(0),
       TermData_FunctionType(None, TermData_Global("A"), TermData_Global("A")) >>

\* the expected types terms are checked against, as core terms
ElaborateExpectedTypes ==
    ElaborateParamTypes
    \o << TermData_FunctionType(None, TermData_Global("A"), TermData_Error),
          TermData_RecordType(<< <<"l", TermData_Global("A")>> >>),
          TermData_Error,
          TermData_Global("T0"),
          TermData_Global("U32"),
          TermData_FunctionElim(
              TermData_FunctionElim(TermData_Global("Array"),
                                    TermData_Constant(Constant_U32(1))),
              TermData_Global("A")),
          TermData_FunctionElim(TermData_Global("List"), TermData_Global("A")) >>

\* the surface terms that are elaborated
ElaborateTerms ==
    << surface_Name("x"),
       surface_Name("A"),
       surface_Name("one"),
       surface_Ann(surface_Name("one"), surface_Name("A")),
       surface_Ann(surface_Name("A"), surface_Name("one")),
       surface_Lift(surface_Name("A"), 1),
       surface_Lift(surface_Name("A"), UniverseOffset_MAX),
       surface_FunctionType(<< << <<"a", "b">>, surface_Name("A") >> >>, surface_Name("A")),
       surface_FunctionType(<< << <<"a", "b">>, surface_Name("A") >> >>, surface_Name("a")),
       surface_FunctionArrowType(surface_Name("A"), surface_Name("A")),
       surface_FunctionArrowType(surface_Name("one"), surface_Name("A")),
       surface_FunctionTerm(<<"a">>, surface_Name("a")),
       surface_FunctionTerm(<<"a", "b">>, surface_Name("a")),
       surface_FunctionElim(surface_Name("f"), <<surface_Name("one")>>),
       surface_FunctionElim(surface_Name("f"), <<surface_Name("one"), surface_Name("one")>>),
       surface_FunctionElim(surface_Name("f"), <<surface_Name("A")>>),
       surface_RecordTerm(<<>>),
       surface_RecordTerm(<< <<"l", None, surface_Name("one")>> >>),
       surface_RecordTerm(<< <<"m", Some("n"), surface_Name("one")>> >>),
       surface_RecordType(<< <<"l", None, surface_Name("A")>>,
                             <<"m", Some("n"), surface_Name("A")>> >>),
       surface_RecordType(<< <<"l", None, surface_Name("A")>>,
                             <<"m", None, surface_Name("l")>> >>),
       surface_RecordType(<< <<"l", None, surface_Name("A")>>,
                             <<"l", None, surface_Name("A")>> >>),
       surface_RecordElim(
           surface_Ann(surface_RecordTerm(<< <<"l", None, surface_Name("one")>> >>),
                       surface_RecordType(<< <<"l", None, surface_Name("A")>> >>)),
           "l"),
       surface_RecordElim(surface_Name("one"), "l"),
       surface_Sequence(<<surface_Name("one")>>),
       surface_Sequence(<<surface_Name("one"), surface_Name("A")>>),
       surface_Literal(Literal_Number("1")),
       surface_Literal(Literal_Number("x")),
       surface_Literal(Literal_Char("c")),
       surface_Error >>

\* the quantities the contracts of is_type, check_type and synth_type name
State_sizes(state) ==
    [universe_offset |-> state.universe_offset,
     names_to_levels |-> Len(state.names_to_levels),
     types |-> Locals_size(state.types),
     values |-> Locals_size(state.values)]

\* the elaborator is under a binder: the body of a function type or term is
\* elaborated with the parameter pushed
ElaboratePushLocalParam ==
    /\ out.op = "none"
    /\ Locals_size(elaborator.values) < MaxLocals
    /\ \E i \in 1..Len(ElaborateParamTypes) :
        LET pushed(type) ==
                elaborator' = State_push_local_param(type.state, Some("x"), type.value).state
        IN  pushed(elaborate("eval_term", <<elaborator, ElaborateParamTypes[i]>>))
    /\ UNCHANGED <<universe_offset, locals, heap, value0, value1, out>>
    /\ UNCHANGED core_to_surface
    /\ UNCHANGED lexer
    /\ UNCHANGED arcs

\* the elaborator is under a lift: the Lift arm of synth_type raises the
\* offset for the term under it
ElaborateEnterLift ==
    /\ out.op = "none"
    /\ elaborator.universe_offset < MaxOffset
    /\ elaborator' = [elaborator EXCEPT !.universe_offset = @ + 1]
    /\ UNCHANGED <<universe_offset, locals, heap, value0, value1, out>>
    /\ UNCHANGED core_to_surface
    /\ UNCHANGED lexer
    /\ UNCHANGED arcs

\* State::is_type is called
IsType ==
    /\ out.op = "none"
    /\ \E i \in 1..Len(ElaborateTerms) :
        LET returned(r) ==
                /\ elaborator' = r.state
                /\ out' = [NoCall EXCEPT !.op = "is_type", !.term = ElaborateTerms[i],
                                         !.result = r.term,
                                         !.held = State_sizes(elaborator)]
        IN  returned(elaborate("is_type", <<elaborator, ElaborateTerms[i]>>))
    /\ UNCHANGED <<universe_offset, locals, heap, value0, value1>>
    /\ UNCHANGED core_to_surface
    /\ UNCHANGED lexer
    /\ UNCHANGED arcs

\* State::check_type is called with an expected type evaluated before
CheckType ==
    /\ out.op = "none"
    /\ \E i \in 1..Len(ElaborateTerms), k \in 1..Len(ElaborateExpectedTypes) :
        LET returned(entered, r) ==
                /\ elaborator' = r.state
                /\ out' = [NoCall EXCEPT !.op = "check_type", !.term = ElaborateTerms[i],
                                         !.result = r.term,
                                         !.expected = ElaborateExpectedTypes[k],
                                         !.held = State_sizes(entered)]
            called(expected_type) ==
                returned(expected_type.state,
                         elaborate("check_type", <<expected_type.state, ElaborateTerms[i],
                                                   expected_type.value>>))
        IN  called(elaborate("eval_term", <<elaborator, ElaborateExpectedTypes[k]>>))
    /\ UNCHANGED <<universe_offset, locals, heap, value0, value1>>
    /\ UNCHANGED core_to_surface
    /\ UNCHANGED lexer
    /\ UNCHANGED arcs

\* State::synth_type is called
SynthType ==
    /\ out.op = "none"
    /\ \E i \in 1..Len(ElaborateTerms) :
        LET returned(r) ==
                /\ elaborator' = r.state
                /\ out' = [NoCall EXCEPT !.op = "synth_type", !.term = ElaborateTerms[i],
                                         !.result = r.term,
                                         !.held = State_sizes(elaborator)]
        IN  returned(elaborate("synth_type", <<elaborator, ElaborateTerms[i]>>))
    /\ UNCHANGED <<universe_offset, locals, heap, value0, value1>>
    /\ UNCHANGED core_to_surface
    /\ UNCHANGED lexer
    /\ UNCHANGED arcs

\* the elaborator entered under the binders and lifts of the term around
NextElaborate ==
    \/ ElaboratePushLocalParam
    \/ ElaborateEnterLift
    \/ IsType
    \/ CheckType
    \/ SynthType

SpecElaborate == Init /\ [][NextElaborate]_vars

\* the kernel under a client that hands it unchecked terms and forces the
\* lazy values they leave, going on after a panic
NextUnchecked ==
    \/ PushLocalParam
    \/ PushLocal
    \/ EvalUnchecked
    \/ Force

SpecUnchecked == Init /\ [][NextUnchecked]_vars

(***************************************************************************)
(* Properties                                                              *)
(***************************************************************************)
\* C1: eval_term and normalize_term return with the local environment the
\* same size as at entry.
C1_LocalsSizeUnchanged ==
    out.op \in {"eval", "normalize"} =>
        /\ out.size_after = out.size_before
        /\ Locals_size(locals) = out.size_before

\* C1 witness: a term with nested binders and an elimination has been
\* normalised under a non-empty local environment.
C1_Witness ==
    /\ out.op = "normalize"
    /\ out.size_before >= 1
    /\ out.term = TermData_FunctionTerm("x",
                      TermData_FunctionElim(TermData_Local(1), TermData_Local(0)))

\* a float constant that is NaN occurs in the term
RECURSIVE HasNaN(_)
HasNaN(term) ==
    CASE term.tag = "Constant" ->
            term.constant.tag = "F32" /\ F32_is_nan(term.constant.value)
      [] term.tag = "Ann" -> HasNaN(term.term) \/ HasNaN(term.type)
      [] term.tag = "Lift" -> HasNaN(term.term)
      [] term.tag \in {"RecordType", "RecordTerm"} ->
            \E i \in 1..Len(term.entries) : HasNaN(term.entries[i][2])
      [] term.tag = "RecordElim" -> HasNaN(term.head)
      [] term.tag = "FunctionType" -> HasNaN(term.input) \/ HasNaN(term.output)
      [] term.tag = "FunctionTerm" -> HasNaN(term.output)
      [] term.tag = "FunctionElim" -> HasNaN(term.head) \/ HasNaN(term.input)
      [] term.tag \in {"ArrayTerm", "ListTerm"} ->
            \E i \in 1..Len(term.entries) : HasNaN(term.entries[i])
      [] OTHER -> FALSE

\* the value of the term the last normalize_term call was given, evaluated
\* again at the client's offset
NormalizeInput == eval_term(universe_offset, locals, out.term, heap)

\* C2 as stated: the normal form, evaluated like the term was (same locals,
\* same universe offset), is is_equal to the value of the term.
C2_ReadBackSoundAsStated ==
    out.op = "normalize" =>
        LET v == NormalizeInput
            n == eval_term(universe_offset, locals, out.result, v.heap)
        IN  is_equal(Locals_size(locals), n.value, v.value, n.heap).ok

\* C2 amended: the normal form of a term without a NaN constant, normalised
\* at any universe offset and evaluated at universe offset 0 under the same
\* locals, is is_equal to the value of the term.
C2_ReadBackSound ==
    (out.op = "normalize" /\ ~HasNaN(out.term)) =>
        LET v == NormalizeInput
            n == eval_term(0, locals, out.result, v.heap)
        IN  is_equal(Locals_size(locals), n.value, v.value, n.heap).ok

\* C2 witness: a term was normalised at a non-zero universe offset and its
\* normal form is not the term itself.
C2_Witness ==
    /\ out.op = "normalize"
    /\ universe_offset > 0
    /\ out.result # out.term
    /\ out.result.tag = "FunctionType"

\* C3 as stated: normalising the normal form again (same locals, same
\* universe offset) gives the same term.
C3_NormalizeIdempotentAsStated ==
    out.op = "normalize" =>
        normalize_term(universe_offset, locals, out.result, heap).term = out.result

\* C3 amended: normalising, at universe offset 0, the normal form of a term
\* normalised at any universe offset gives the same term.
C3_NormalizeIdempotent ==
    out.op = "normalize" =>
        normalize_term(0, locals, out.result, heap).term = out.result

\* C3 witness: a term that is not in normal form was normalised to a stuck
\* application, at a non-zero universe offset.
C3_Witness ==
    /\ out.op = "normalize"
    /\ universe_offset > 0
    /\ out.result # out.term
    /\ out.result.tag = "FunctionElim"

\* the last kernel call compared the two values the client holds
Compared == out.op \in {"is_equal", "is_subtype"}

C5_Cumulativity ==
    (Compared /\ value0.value.tag = "TypeType" /\ value1.value.tag = "TypeType") =>
        /\ out.op = "is_subtype" => (out.ok <=> value0.value.level <= value1.value.level)
        /\ out.op = "is_equal" => (out.ok <=> value0.value.level = value1.value.level)

\* C5 witness: is_subtype accepted a universe below a strictly larger one.
C5_Witness ==
    /\ out.op = "is_subtype"
    /\ value0.value.tag = "TypeType" /\ value1.value.tag = "TypeType"
    /\ value0.value.level < value1.value.level
    /\ out.ok

\* the two conditions of function type variance: the second input type is a
\* subtype of the first, and the first output type is a subtype of the
\* second, both outputs applied to one fresh local and compared one deeper
FunctionTypeVariance(local_size, value0_, value1_, heap_) ==
    LET input == is_subtype(local_size, value1_.input_type, value0_.input_type, heap_)
        local == Value_local(LocalSize_next_level(local_size), <<>>)
        output0 == FunctionClosure_apply(value0_.closure, local, heap_)
        output1 == FunctionClosure_apply(value1_.closure, local, output0.heap)
        output == is_subtype(LocalSize_increment(local_size), output0.value,
                             output1.value, output1.heap)
    IN  input.ok /\ output.ok

\* C6: is_subtype on two function types holds exactly when the input types
\* are related contravariantly and the output types covariantly.
C6_FunctionTypeVariance ==
    (/\ out.op = "is_subtype"
     /\ value0.value.tag = "FunctionType"
     /\ value1.value.tag = "FunctionType") =>
        (out.ok <=> FunctionTypeVariance(Locals_size(locals), value0.value, value1.value,
                                         out.heap_before))

\* C6 witness: is_subtype accepted two function types whose input universes
\* differ, the first above the second, and whose output universes differ the
\* other way.
C6_Witness ==
    /\ out.op = "is_subtype"
    /\ value0.value.tag = "FunctionType" /\ value1.value.tag = "FunctionType"
    /\ value0.value.input_type.tag = "TypeType" /\ value1.value.input_type.tag = "TypeType"
    /\ value0.value.input_type.level > value1.value.input_type.level
    /\ value0.term.output.tag = "TypeType" /\ value1.term.output.tag = "TypeType"
    /\ value0.term.output.level < value1.term.output.level
    /\ out.ok

\* the term with every free local at or above `depth` moved one binder out
RECURSIVE Weaken(_, _)
Weaken(term, depth) ==
    CASE term.tag = "Local" ->
            IF term.index >= depth THEN TermData_Local(term.index + 1) ELSE term
      [] term.tag = "Ann" ->
            TermData_Ann(Weaken(term.term, depth), Weaken(term.type, depth))
      [] term.tag = "Lift" -> TermData_Lift(Weaken(term.term, depth), term.offset)
      [] term.tag \in {"RecordType", "RecordTerm"} ->
            [term EXCEPT !.entries =
                [i \in 1..Len(term.entries) |->
                    <<term.entries[i][1], Weaken(term.entries[i][2], depth + i - 1)>>]]
      [] term.tag = "RecordElim" ->
            TermData_RecordElim(Weaken(term.head, depth), term.label)
      [] term.tag = "FunctionType" ->
            TermData_FunctionType(term.hint, Weaken(term.input, depth),
                                  Weaken(term.output, depth + 1))
      [] term.tag = "FunctionTerm" ->
            TermData_FunctionTerm(term.name, Weaken(term.output, depth + 1))
      [] term.tag = "FunctionElim" ->
            TermData_FunctionElim(Weaken(term.head, depth), Weaken(term.input, depth))
      [] term.tag \in {"ArrayTerm", "ListTerm"} ->
            [term EXCEPT !.entries =
                [i \in 1..Len(term.entries) |-> Weaken(term.entries[i], depth)]]
      [] OTHER -> term

\* the eta-expansion of f: FunctionTerm(x, FunctionElim(f, x))
EtaExpansion(term) ==
    TermData_FunctionTerm("x", TermData_FunctionElim(Weaken(term, 0), TermData_Local(0)))

\* the terms of the model that denote functions: a function term, a global
\* declared with a function type, a local that is a parameter or is bound to
\* such a global
FunctionTyped(term) ==
    \/ term.tag = "FunctionTerm"
    \/ /\ term.tag = "Global"
       /\ Globals_get(term.name) # None
       /\ Globals_get(term.name).type.tag = "FunctionType"
    \/ /\ term.tag = "Local"
       /\ Locals_get(locals, term.index).tag \in {"Stuck", "Unstuck"}

\* the client holds a function f and its eta-expansion, and compared them
\* with is_equal
EtaCompared ==
    /\ out.op = "is_equal"
    /\ FunctionTyped(value0.term)
    /\ value1.term.tag = "FunctionTerm"
    /\ value1.term.output.tag = "FunctionElim"
    /\ value1.term.output.head.tag = Weaken(value0.term, 0).tag
    /\ value1.term = EtaExpansion(value0.term)

\* C7 as stated: is_equal(f, FunctionTerm(x, FunctionElim(f, x))) is true for
\* every function-typed f, a stuck neutral f included.
C7_Eta == EtaCompared => out.ok

\* C7 amended: for f without a NaN constant,
\* is_equal(f, FunctionTerm(x, FunctionElim(f, x))) is true when the value of
\* f is, or forces to, a function term, and false when f is a stuck neutral.
C7_EtaOfFunctionTerms ==
    (EtaCompared /\ ~HasNaN(value0.term)) =>
        (out.ok <=> Value_force(value0.value, out.heap_before).value.tag = "FunctionTerm")

\* C7 witness: is_equal accepted the defined global id against its
\* eta-expansion.
C7_Witness ==
    /\ EtaCompared
    /\ value0.term = TermData_Global("id")
    /\ out.ok

\* the client holds the same value twice
SameValue ==
    /\ value0.value.tag = value1.value.tag
    /\ value0.value = value1.value

\* the value is a type, and so are the types it is built from: a neutral, a
\* universe, Error, a function type of types, a record type of types
RECURSIVE IsTypeValue(_, _, _)
RECURSIVE IsTypeValue_entries(_, _, _, _, _, _)
IsTypeValue(local_size, value, heap_) ==
    CASE value.tag \in {"Stuck", "Unstuck", "TypeType", "Error"} -> TRUE
      [] value.tag = "FunctionType" ->
            LET local == Value_local(LocalSize_next_level(local_size), <<>>)
                output == FunctionClosure_apply(value.closure, local, heap_)
            IN  /\ IsTypeValue(local_size, value.input_type, heap_)
                /\ IsTypeValue(LocalSize_increment(local_size), output.value, output.heap)
      [] value.tag = "RecordType" ->
            IsTypeValue_entries(local_size, value.closure.universe_offset,
                                value.closure.locals, value.closure.entries, 1, heap_)
      [] OTHER -> FALSE

IsTypeValue_entries(local_size, universe_offset_, locals_, entries, i, heap_) ==
    IF i > Len(entries)
    THEN TRUE
    ELSE LET entry == eval_term(universe_offset_, locals_, entries[i][2], heap_)
             local == Value_local(LocalSize_next_level(local_size), <<>>)
         IN  /\ IsTypeValue(local_size, entry.value, entry.heap)
             /\ IsTypeValue_entries(LocalSize_increment(local_size), universe_offset_,
                                    Locals_push(entry.locals, local), entries, i + 1,
                                    entry.heap)

\* C8 as stated: is_equal(v, v) and is_subtype(v, v) are true for every value.
C8_Reflexive == (Compared /\ SameValue) => out.ok

\* C8 amended: for v the value of a term without a NaN constant,
\* is_equal(v, v) is true; is_subtype(v, v) is true when v is a type built
\* from types, and false when v or one of its component types is a constant,
\* a function term, a record term or a sequence.
C8_ReflexiveOnTypes ==
    /\ (out.op = "is_equal" /\ SameValue /\ ~HasNaN(value0.term)) => out.ok
    /\ (out.op = "is_subtype" /\ SameValue /\ ~HasNaN(value0.term)) =>
            (out.ok <=> IsTypeValue(Locals_size(locals), value0.value, out.heap_before))

\* C8 witness: is_subtype accepted a dependent record type of two fields
\* against itself.
C8_Witness ==
    /\ out.op = "is_subtype"
    /\ SameValue
    /\ value0.value.tag = "RecordType"
    /\ Len(value0.value.closure.entries) = 2
    /\ out.ok

\* the client compared two stuck values headed by a global of one name, with
\* spines that are pairwise equal
StuckGlobalsCompared ==
    /\ Compared
    /\ value0.value.tag = "Stuck" /\ value1.value.tag = "Stuck"
    /\ value0.value.head.tag = "Global" /\ value1.value.head.tag = "Global"
    /\ value0.value.head.name = value1.value.head.name
    /\ Len(value0.value.spine) = Len(value1.value.spine)
    /\ is_equal_spine(Locals_size(locals), value0.value.spine, value1.value.spine, 1,
                      out.heap_before).ok

GluedCompared ==
    /\ Compared
    /\ value0.value.tag = "Unstuck" /\ value1.value.tag = "Unstuck"
    /\ is_equal_stuck_value(Locals_size(locals), value0.value.head, value0.value.spine,
                            value1.value.head, value1.value.spine, out.heap_before).ok

\* the lazy value at `lazy` has not been forced in heap_
Unforced(heap_, lazy) == heap_[lazy].cell.tag = "None"

RECURSIVE ApplySpine(_, _, _, _)
ApplySpine(value, spine, i, heap_) ==
    IF i > Len(spine)
    THEN [value |-> value, heap |-> heap_]
    ELSE LET r == IF spine[i].tag = "Record"
                  THEN apply_record_elim(value, spine[i].label, heap_)
                  ELSE apply_function_elim(value, spine[i].input, heap_)
         IN  ApplySpine(r.value, spine, i + 1, r.heap)

\* the definition of the global at the head, evaluated at the offset of the
\* head, with the eliminations of the spine applied in order
Unfolded(value, heap_) ==
    LET definition == eval_term(value.head.offset, locals,
                                Globals_get(value.head.name).definition, heap_)
    IN  ApplySpine(definition.value, value.spine, 1, definition.heap)

\* the eliminations the lazy value applies, innermost first: the ApplyElim
\* initialisers from the lazy value down to the first lazy value that is
\* not an unforced ApplyElim
RECURSIVE LazyElims(_, _)
LazyElims(heap_, lazy) ==
    IF heap_[lazy].init # None /\ heap_[lazy].init.tag = "ApplyElim"
    THEN Append(LazyElims(heap_, heap_[lazy].init.head), heap_[lazy].init.elim)
    ELSE <<>>

\* the unstuck value is coherent: its lazy value forces to what the
\* definition unfolded through the spine normalises to, and the initialisers
\* that are still unforced hold the last eliminations of the spine in order
Coherent(value, heap_) ==
    LET forced == Value_force(value, heap_)
        unfolded == Unfolded(value, heap_)
    IN  /\ read_back_value(Locals_size(locals), Unfold_Always, forced.value,
                           forced.heap).term
            = read_back_value(Locals_size(locals), Unfold_Always, unfolded.value,
                              unfolded.heap).term
        /\ LET elims == LazyElims(heap_, value.lazy)
               n == Len(value.spine)
           IN  /\ Len(elims) <= n
               /\ elims = SubSeq(value.spine, n - Len(elims) + 1, n)

\* C11: every unstuck value the client holds, as a value or in its local
\* environment, is coherent.
C11_GluedCoherence ==
    /\ (value0 # None /\ value0.value.tag = "Unstuck") => Coherent(value0.value, heap)
    /\ (value1 # None /\ value1.value.tag = "Unstuck") => Coherent(value1.value, heap)
    /\ \A i \in 1..Len(locals) : locals[i].tag = "Unstuck" => Coherent(locals[i], heap)

\* C11 witness: the client holds the unforced value of a defined global under
\* two function eliminations, which unfolds to a constant.
C11_Witness ==
    /\ value0 # None
    /\ value0.value.tag = "Unstuck"
    /\ Len(value0.value.spine) = 2
    /\ Unforced(heap, value0.value.lazy)
    /\ Value_force(value0.value, heap).value.tag = "Constant"
    /\ Coherent(value0.value, heap)

\* C12: a lazy value is assigned once and memoised: in every step, a cell
\* that holds a value keeps it, an initialiser that was taken stays taken, a
\* cell that holds a value has no initialiser left, no lazy value goes away,
\* and a force of the lazy value the last step forced returns the same value
\* and changes nothing.
C12_SingleAssignment ==
    [][/\ Len(heap') >= Len(heap)
       /\ \A lazy \in 1..Len(heap) :
            /\ heap[lazy].cell # None => heap'[lazy] = heap[lazy]
            /\ heap[lazy].init = None => heap'[lazy].init = None
       /\ \A lazy \in 1..Len(heap') : heap'[lazy].cell # None => heap'[lazy].init = None
       /\ (out.op = "force" /\ out'.op = "force" /\ out'.lazy = out.lazy) =>
                (out'.result = out.result /\ heap' = heap)]_vars

\* C12 witness: a lazy value that applies an elimination to a shared lazy
\* value, already forced, has been forced in its turn.
C12_Witness ==
    /\ out.op = "force"
    /\ out.heap_before[out.lazy].init # None
    /\ out.heap_before[out.lazy].init.tag = "ApplyElim"
    /\ ~Unforced(out.heap_before, out.heap_before[out.lazy].init.head)
    /\ ~Unforced(heap, out.lazy)
    /\ heap[out.lazy].init = None
    /\ out.result = heap[out.lazy].cell

\* the last call forced a lazy value whose initialiser had been taken and
\* whose cell was empty
PoisonedForced ==
    /\ out.op = "force"
    /\ out.heap_before[out.lazy].init = None
    /\ Unforced(out.heap_before, out.lazy)

\* C13: forcing a lazy value whose initialiser was taken and whose cell is
\* empty panics: it returns no value, runs no initialiser and leaves every
\* lazy value as it was.
C13_PoisonedForcePanics ==
    PoisonedForced => (out.result = Value_Panic /\ heap = out.heap_before)

\* C13 witness: a lazy value whose initialiser panicked was forced again, and
\* the force panicked.
C13_Witness ==
    /\ PoisonedForced
    /\ out.result = Value_Panic

\* the type of field `label` of a record type, each earlier field bound to
\* the projection of the head value at that field's own label
RECURSIVE ProjectedEntryType(_, _, _, _, _, _, _)
ProjectedEntryType(universe_offset_, locals_, entries, i, head_value, label, heap_) ==
    IF i > Len(entries)
    THEN [value |-> None, heap |-> heap_]
    ELSE LET r == eval_term(universe_offset_, locals_, entries[i][2], heap_)
         IN  IF entries[i][1] = label
             THEN [value |-> Some(r.value), heap |-> r.heap]
             ELSE LET entry == apply_record_elim(head_value, entries[i][1], r.heap)
                  IN  ProjectedEntryType(universe_offset_, Locals_push(r.locals, entry.value),
                                         entries, i + 1, head_value, label, entry.heap)

\* the normal form of a value
NormalForm(value, heap_) ==
    read_back_value(Locals_size(locals), Unfold_Always, value, heap_).term

\* C14: record_elim_type returns None when the label is absent and otherwise
\* the type of the field, evaluated with each earlier field bound to the
\* projection of the head value at that earlier field's label.
C14_ProjectsEarlierFields ==
    out.op = "record_elim_type" =>
        LET closure == value1.value.closure
            expected == ProjectedEntryType(closure.universe_offset, closure.locals,
                                           closure.entries, 1, value0.value, out.label,
                                           out.heap_before)
        IN  IF expected.value = None
            THEN out.result = None
            ELSE /\ out.result.tag = "Some"
                 /\ NormalForm(out.result.value, heap)
                        = NormalForm(expected.value.value, expected.heap)

\* the value is stuck on a local whose level is out of range for the size
EscapedStuck(value, size) ==
    /\ value.tag = "Stuck"
    /\ value.head.tag = "Local"
    /\ value.head.level >= size

\* C15: read_back_value does not crash on a local level that is out of range
\* for the size, and a stuck value with such a head reads back as Error.
C15_EscapedLocalReadsBackAsError ==
    out.op = "read_back" =>
        /\ out.result # TermData_Panic
        /\ EscapedStuck(value0.value, out.size_before) => out.result = TermData_Error

\* the term is a lift of a lift
DoubleLift(term) == term.tag = "Lift" /\ term.term.tag = "Lift"

\* C16: evaluating Lift(Lift(t, a), b) at the ambient offset d gives the value
\* (and the heap) that evaluating Lift(t, a + b) gives; a TypeType(l) becomes
\* TypeType(l + d + a + b), and closures and global heads carry d + a + b.
C16_OffsetComposition ==
    (out.op = "eval" /\ DoubleLift(out.term)) =>
        LET t == out.term.term.term
            sum == universe_offset + out.term.term.offset + out.term.offset
            once == eval_term(universe_offset, locals,
                              TermData_Lift(t, out.term.term.offset + out.term.offset),
                              out.heap_before)
            value == value0.value
        IN  /\ t.tag = "TypeType" => value = Value_TypeType(t.level + sum)
            /\ t.tag = "Global" /\ value.tag \in {"Stuck", "Unstuck"}
                    => value.head.offset = sum
            /\ value.tag \in {"FunctionTerm", "FunctionType", "RecordTerm", "RecordType"}
                    => value.closure.universe_offset = sum
            /\ value = once.value
            /\ heap = once.heap

\* a universe lifted twice under a lift
C16_Witness ==
    /\ out.op = "eval" /\ DoubleLift(out.term)
    /\ universe_offset = 1 /\ out.term.offset = 1 /\ out.term.term.offset = 1
    /\ out.term.term.term = TermData_TypeType(1)
    /\ value0.value = Value_TypeType(4)

\* a size no level of the model reaches: a value of any scope reads back
\* under it
OuterSize == MaxLocals + 1

\* what a value evaluates to: its closures applied, its entries evaluated and
\* its thunks forced, in normal form, in both unfolding modes
Observed(value, heap_) ==
    << read_back_value(OuterSize, Unfold_Never, value, heap_).term,
       read_back_value(OuterSize, Unfold_Always, value, heap_).term >>

NotAType(value) ==
    value.tag \in {"Constant", "ArrayTerm", "ListTerm", "FunctionTerm", "RecordTerm"}

\* the value is Error, or a glued value that forces to Error
ForcesToError(value, heap_) == Value_force(value, heap_).value.tag = "Error"

C19_BalancedRestores ==
    core_to_surface.names = <<>> => core_to_surface = core_to_surface_State_new

\* C20: push_name never returns the name of a global, and the entry of every
\* global stays in the usages table.
C20_NeverAGlobalName ==
    /\ out.op = "push_name" => \A i \in 1..Len(GlobalNames) : out.name # GlobalNames[i]
    /\ \A i \in 1..Len(GlobalNames) : GlobalNames[i] \in DOMAIN core_to_surface.usages

\* C27: the name push_name returns is fresh: it differs from every name that
\* was on the name stack when it was called.
C27_FreshNames ==
    out.op = "push_name" =>
        /\ core_to_surface.names[Len(core_to_surface.names)] = out.name
        /\ \A i \in 1..(Len(core_to_surface.names) - 1) :
                core_to_surface.names[i] # out.name

\* C28: from_term leaves the name stack balanced: after the call the stack
\* holds as many names as before it, and the names that were on it before the
\* call are still on it.
C28_FromTermBalanced ==
    out.op = "from_term" =>
        /\ out.size_after = out.size_before
        /\ core_to_surface.names = out.held

\* C29: is_equal is symmetric: at one size and on one heap, is_equal of two
\* values gives the same answer with the values exchanged, whether both, one
\* or none of them is Unstuck or Error.
C29_IsEqualSymmetric ==
    out.op = "is_equal" =>
        out.ok = is_equal(Locals_size(locals), value1.value, value0.value,
                          out.heap_before).ok

\* C29 witness: is_equal accepted the constant 1 against the unstuck value of
\* the global `one`, the unstuck value on the right alone
C29_Witness ==
    /\ out.op = "is_equal"
    /\ value0.value = Value_Constant(Constant_U32(1))
    /\ value1.value.tag = "Unstuck"
    /\ value1.term = TermData_Global("one")
    /\ out.ok
    /\ is_equal(Locals_size(locals), value1.value, value0.value, out.heap_before).ok

\* the value is a type value: a stuck neutral, a universe, Error, an unstuck
\* value that unfolds to a type value, or a function type or record type whose
\* component types are type values
RECURSIVE TypeValue(_, _, _)
RECURSIVE TypeValue_entries(_, _, _, _, _, _)
TypeValue(local_size, value, heap_) ==
    CASE value.tag \in {"Stuck", "TypeType", "Error"} -> TRUE
      [] value.tag = "Unstuck" ->
            LET forced == LazyValue_force(value.lazy, heap_)
            IN  TypeValue(local_size, forced.value, forced.heap)
      [] value.tag = "FunctionType" ->
            LET local == Value_local(LocalSize_next_level(local_size), <<>>)
                output == FunctionClosure_apply(value.closure, local, heap_)
            IN  /\ TypeValue(local_size, value.input_type, heap_)
                /\ TypeValue(LocalSize_increment(local_size), output.value, output.heap)
      [] value.tag = "RecordType" ->
            TypeValue_entries(local_size, value.closure.universe_offset,
                              value.closure.locals, value.closure.entries, 1, heap_)
      [] OTHER -> FALSE

TypeValue_entries(local_size, universe_offset_, locals_, entries, i, heap_) ==
    IF i > Len(entries)
    THEN TRUE
    ELSE LET entry == eval_term(universe_offset_, locals_, entries[i][2], heap_)
             local == Value_local(LocalSize_next_level(local_size), <<>>)
         IN  /\ TypeValue(local_size, entry.value, entry.heap)
             /\ TypeValue_entries(LocalSize_increment(local_size), universe_offset_,
                                  Locals_push(entry.locals, local), entries, i + 1,
                                  entry.heap)

\* C30: equality implies subtyping on types: when is_equal accepts two type
\* values at one size, is_subtype accepts them in both directions.
C30_EqualTypesAreSubtypes ==
    (out.op = "is_equal" /\ out.ok
     /\ TypeValue(Locals_size(locals), value0.value, out.heap_before)
     /\ TypeValue(Locals_size(locals), value1.value, out.heap_before)) =>
        /\ is_subtype(Locals_size(locals), value0.value, value1.value, out.heap_before).ok
        /\ is_subtype(Locals_size(locals), value1.value, value0.value, out.heap_before).ok

\* C30 witness: is_equal accepted the universe Type against the unstuck value
\* of the global T0, which unfolds to it, and each is a subtype of the other
C30_Witness ==
    /\ out.op = "is_equal" /\ out.ok
    /\ value0.value = Value_TypeType(0)
    /\ value1.term = TermData_Global("T0")
    /\ value1.value.tag = "Unstuck"
    /\ TypeValue(Locals_size(locals), value1.value, out.heap_before)
    /\ is_subtype(Locals_size(locals), value0.value, value1.value, out.heap_before).ok
    /\ is_subtype(Locals_size(locals), value1.value, value0.value, out.heap_before).ok

\* C21: is_type, check_type and synth_type each return with universe_offset,
\* the length of names_to_levels, the size of the type environment and the
\* size of the value environment equal to their values at entry, on every
\* path, the error and early-return paths included.
C21_ElaboratorRestoresState ==
    out.op \in {"is_type", "check_type", "synth_type"} =>
        State_sizes(elaborator) = out.held

\* check_type has left by the Error arm of its loop over the input names,
\* after an input was pushed, under a binder
C21_Witness ==
    /\ out.op = "check_type"
    /\ out.term = surface_FunctionTerm(<<"a", "b">>, surface_Name("a"))
    /\ out.expected = TermData_FunctionType(None, TermData_Global("A"), TermData_Error)
    /\ out.result = TermData_Error
    /\ out.held.values > 0
    /\ State_sizes(elaborator) = out.held

\* the characters of the source at the offsets start..end_-1 of the item
ItemText(item) == SubSeq(lexer.source, item.start + 1, item.end_)

\* the character at the offset lies in the range of exactly one item
Lexed(offset) ==
    Cardinality({i \in 1..Len(lexer.items) :
                    lexer.items[i].start <= offset /\ offset < lexer.items[i].end_}) = 1

\* C22: the token stream goes on after an invalid token.  The items lie in
\* source order; every character up to the position of the stream, and every
\* character of the source once the stream has ended, is whitespace or lies
\* in exactly one item; an item is Err exactly when its range is an invalid
\* character, and an Ok item holds the token its range spells.
C22_LexingContinuesAfterError ==
    LET items == lexer.items
        covered == IF lexer_next(lexer.source, lexer.position) = None
                   THEN Len(lexer.source)
                   ELSE lexer.position
    IN  /\ \A i \in 1..Len(items) :
                /\ items[i].start < items[i].end_ /\ items[i].end_ <= Len(lexer.source)
                /\ i < Len(items) => items[i].end_ <= items[i + 1].start
                /\ items[i].tag = "Err" <=> ItemText(items[i]) = <<"@">>
                /\ items[i].tag = "Ok" =>
                        \/ items[i].token = Token_Dot /\ ItemText(items[i]) = <<".">>
                        \/ /\ items[i].token = Token_Name(ItemText(items[i]))
                           /\ \A k \in 1..Len(ItemText(items[i])) :
                                    NameContinue(ItemText(items[i])[k])
        /\ \A offset \in 0..(covered - 1) :
                Whitespace(lexer.source[offset + 1]) \/ Lexed(offset)

\* the items of "@." are an Err and then the Ok dot
C22_Witness ==
    /\ lexer.source = <<"@", ".">>
    /\ lexer.items = << [tag |-> "Err", start |-> 0, end_ |-> 1],
                        [tag |-> "Ok", start |-> 1, token |-> Token_Dot, end_ |-> 2] >>

\* C23: a global evaluates to a glued value when it is defined, and to a
\* stuck value when it is abstract or unknown.  The head is the global at the
\* offset of the call and the spine is empty; the payload of a defined global
\* is a new unforced lazy value that holds the offset, the locals and the
\* definition, and nothing else of the heap changes; forcing the payload
\* stores the value of the definition.
C23_GlobalIsGluedLazily ==
    (value0 # None /\ value1 = None /\ value0.term.tag = "Global") =>
        LET global == Globals_get(value0.term.name)
            head == Head_Global(value0.term.name, universe_offset)
            lazy == Len(out.heap_before) + 1
        IN  /\ out.op = "eval" =>
                IF global # None /\ global.definition # None
                THEN /\ value0.value = Value_Unstuck(head, <<>>, lazy)
                     /\ heap = Append(out.heap_before,
                                      [init |-> LazyInit_EvalTerm(universe_offset, locals,
                                                                  global.definition),
                                       cell |-> None])
                ELSE /\ value0.value = Value_Stuck(head, <<>>)
                     /\ heap = out.heap_before
            /\ (out.op = "force" /\ value0.value.tag = "Unstuck"
                /\ out.lazy = value0.value.lazy) =>
                    /\ out.result = eval_term(universe_offset, locals, global.definition,
                                              out.heap_before).value
                    /\ heap[out.lazy].cell = out.result

\* C23 witness: the payload of the defined global `one` has been forced
C23_Witness ==
    /\ value0 # None /\ value1 = None
    /\ value0.term = TermData_Global("one")
    /\ value0.value.tag = "Unstuck"
    /\ out.op = "force" /\ out.lazy = value0.value.lazy
    /\ out.heap_before[out.lazy].cell = None
    /\ out.result = Value_Constant(Constant_U32(1))

\* the values of the fields from the i-th on, in order, each evaluated in the
\* environment that holds the values of all the fields before it
RECURSIVE FieldValues(_, _, _, _, _)
FieldValues(universe_offset_, locals_, entries, i, heap_) ==
    IF i > Len(entries)
    THEN <<>>
    ELSE LET r == eval_term(universe_offset_, locals_, entries[i][2], heap_)
         IN  <<r.value>> \o FieldValues(universe_offset_, Locals_push(locals_, r.value),
                                        entries, i + 1, r.heap)

\* C24: projecting a label from a record term gives the value of the first
\* field with that label, the fields evaluated in order, each in the
\* environment of the closure extended with the values of all the fields
\* before it; the result is Error when no field has the label, and when the
\* head is neither a record term nor a stuck or unstuck value.
C24_ProjectionOfRecordTerm ==
    out.op = "project" =>
        LET head_value == out.held
        IN  CASE head_value.tag = "RecordTerm" ->
                    LET closure == head_value.closure
                        values == FieldValues(closure.universe_offset, closure.locals,
                                              closure.entries, 1, out.heap_before)
                        found == {i \in 1..Len(closure.entries) :
                                     closure.entries[i][1] = out.label}
                    IN  IF found = {}
                        THEN out.result = Value_Error
                        ELSE \E i \in found :
                                /\ \A k \in found : i <= k
                                /\ out.result = values[i]
              [] head_value.tag \in {"Stuck", "Unstuck"} ->
                    out.result.tag = head_value.tag
              [] OTHER -> out.result = Value_Error

\* C24 witness: the third field of a record term was projected, and its value
\* is the value of the first field, which it names
C24_Witness ==
    /\ out.op = "project"
    /\ out.label = "c"
    /\ out.held.tag = "RecordTerm"
    /\ out.held.closure.entries = << <<"a", ConstantOne>>, <<"b", ConstantSeven>>,
                                     <<"c", TermData_Local(1)>> >>
    /\ out.result = Value_Constant(Constant_U32(1))

\* the fresh locals bound for the first n fields of two record types that
\* are compared at local_size
RECURSIVE SharedLocals(_, _)
SharedLocals(local_size, n) ==
    IF n = 0 THEN <<>>
    ELSE Append(SharedLocals(local_size, n - 1), Value_local(local_size + n - 1, <<>>))

\* the i-th field types of two record types, each evaluated in the locals of
\* its own closure extended with the shared fresh locals of the fields
\* before it, are equal, or the first is a subtype of the second
FieldTypesRelated(relation, local_size, closure0, closure1, i, heap_) ==
    LET shared == SharedLocals(local_size, i - 1)
        entry0 == eval_term(closure0.universe_offset, closure0.locals \o shared,
                            closure0.entries[i][2], heap_)
        entry1 == eval_term(closure1.universe_offset, closure1.locals \o shared,
                            closure1.entries[i][2], entry0.heap)
    IN  IF relation = "is_equal"
        THEN is_equal(local_size + i - 1, entry0.value, entry1.value, entry1.heap).ok
        ELSE is_subtype(local_size + i - 1, entry0.value, entry1.value, entry1.heap).ok

\* C25: two record types are equal, or in the subtype relation, exactly when
\* they have the same number of fields, with the same labels in the same
\* order, and every pair of field types, each evaluated in the environment of
\* its own closure extended with one shared fresh local per earlier field, is
\* equal, or a subtype in the same direction; a mismatch of the lengths or of
\* a label gives false.
C25_RecordTypesFieldwise ==
    (Compared /\ value0.value.tag = "RecordType" /\ value1.value.tag = "RecordType") =>
        LET closure0 == value0.value.closure
            closure1 == value1.value.closure
        IN  out.ok <=>
                /\ Len(closure0.entries) = Len(closure1.entries)
                /\ \A i \in 1..Len(closure0.entries) :
                        closure0.entries[i][1] = closure1.entries[i][1]
                /\ \A i \in 1..Len(closure0.entries) :
                        FieldTypesRelated(out.op, Locals_size(locals), closure0, closure1, i,
                                          out.heap_before)

\* C25 witness: is_subtype accepted a record type whose first field is a
\* smaller universe and whose second field names the first
C25_Witness ==
    /\ out.op = "is_subtype"
    /\ value0.term = TermData_RecordType(<< <<"a", TermData_TypeType(0)>>,
                                            <<"b", TermData_Local(0)>> >>)
    /\ value1.term = TermData_RecordType(<< <<"a", TermData_TypeType(1)>>,
                                            <<"b", TermData_Local(0)>> >>)
    /\ out.ok

\* C26: an elimination applied to a neutral value gives the value with the
\* extended spine.  When the value had another holder, the result is a new
\* cell and every cell that existed keeps its head, spine and lazy payload,
\* and every lazy value that existed is as it was; the value is extended in
\* its own cell only when the handle applied was the only one.
C26_CopyOnWrite ==
    (out.op = "apply" /\ arcs.applied # 0 /\ out.held.tag \in {"Stuck", "Unstuck"}) =>
        LET before == arcs.before
            result == arcs.cells[arcs.result].value
        IN  /\ result.tag = out.held.tag
            /\ result.head = out.held.head
            /\ Len(result.spine) = Len(out.held.spine) + 1
            /\ SubSeq(result.spine, 1, Len(out.held.spine)) = out.held.spine
            /\ before[arcs.applied].strong > 1 =>
                    /\ arcs.result = Len(before) + 1
                    /\ \A ptr \in 1..Len(before) : arcs.cells[ptr].value = before[ptr].value
            /\ arcs.result = arcs.applied => before[arcs.applied].strong = 1
            /\ \A k \in 1..Len(arcs.handles) :
                    arcs.handles[k] # arcs.result =>
                        arcs.cells[arcs.handles[k]].value = before[arcs.handles[k]].value
            /\ \A lazy \in 1..Len(out.heap_before) : heap[lazy] = out.heap_before[lazy]

\* C26 witness: a record elimination was applied to an unstuck value that had
\* a second holder, which still sees the empty spine
C26_Witness ==
    /\ out.op = "apply" /\ arcs.applied # 0
    /\ out.held.tag = "Unstuck"
    /\ arcs.before[arcs.applied].strong = 2
    /\ arcs.result # arcs.applied
    /\ \E k \in 1..Len(arcs.handles) :
            /\ arcs.handles[k] = arcs.applied
            /\ arcs.cells[arcs.handles[k]].value.spine = <<>>
    /\ arcs.cells[arcs.result].value.spine = <<Elim_Record("a")>>

\* no kernel call of the model panics
NoPanic ==
    /\ out.result # TermData_Panic
    /\ value0 # None => value0.value # Value_Panic
    /\ value1 # None => value1.value # Value_Panic

====
